---------------------------- MODULE Spec2Model ----------------------------
(***************************************************************************)
(* Model of clastix/talos-csr-signer: the gRPC handler Server.Certificate  *)
(* (pkg/server) that authenticates a caller by a shared token, validates   *)
(* a PEM-encoded CSR and signs it with the configured CA.                  *)
(*                                                                         *)
(* Byte strings are modelled by their structure: a PEM input is a sequence *)
(* of chunks, each either non-PEM bytes or one PEM block (type, DER        *)
(* payload); a DER payload is the record of what it parses to, or garbage. *)
(* Keys are key-pair identifiers: the private key k signs, the public key  *)
(* k verifies.  The wall clock counts whole seconds, the resolution of the *)
(* validity fields of an X.509 certificate.                                *)
(***************************************************************************)
EXTENDS Integers, Sequences, FiniteSets, TLC

(***************************************************************************)
(* Bounds of the model.                                                    *)
(***************************************************************************)
\* last value of the wall clock, in seconds since the server started
MaxClock == 1
\* number of distinct values the random source may return for a serial
MaxSerial == 2

(***************************************************************************)
(* Program constants.                                                      *)
(***************************************************************************)
\* NotAfter: time.Now().Add(365 * 24 * time.Hour)
ValidityDays == 365
HoursPerDay == 24
SecondsPerHour == 3600
Validity == ValidityDays * HoursPerDay * SecondsPerHour

\* gRPC status codes used by the handler
codes ==
    [OK |-> "OK", Unauthenticated |-> "Unauthenticated",
     InvalidArgument |-> "InvalidArgument", Internal |-> "Internal"]

(***************************************************************************)
(* PEM and DER.                                                            *)
(***************************************************************************)
NoDER == [kind |-> "none"]
GarbageDER == [kind |-> "garbage"]

\* bytes that hold no PEM block
Junk == [pem |-> FALSE, Type |-> "", Bytes |-> NoDER]

PEMBlock(type, der) == [pem |-> TRUE, Type |-> type, Bytes |-> der]

NoBlock == [found |-> FALSE, Type |-> "", Bytes |-> NoDER, rest |-> <<>>]

\* index of the first PEM block of data, 0 when there is none
FirstBlockIndex(data) ==
    IF \E i \in 1..Len(data) : data[i].pem
    THEN CHOOSE i \in 1..Len(data) :
            data[i].pem /\ \A j \in 1..(i - 1) : ~data[j].pem
    ELSE 0

\* pem.Decode: the first PEM block of data and the bytes after it; bytes
\* before the block are skipped; no block found when there is none.
pemDecode(data) ==
    LET i == FirstBlockIndex(data)
    IN  IF i = 0
        THEN NoBlock
        ELSE [found |-> TRUE, Type |-> data[i].Type, Bytes |-> data[i].Bytes,
              rest |-> SubSeq(data, i + 1, Len(data))]

\* pem.EncodeToMemory(&pem.Block{Type, Bytes})
pemEncodeToMemory(type, der) == <<PEMBlock(type, der)>>

(***************************************************************************)
(* Keys, names, certificate signing requests.                              *)
(***************************************************************************)
CAKey == "kCA"
OtherKey == "kOther"
NodeKey == "kNode"

Name(cn, org) == [CommonName |-> cn, Organization |-> org]

\* the part of a CSR its self-signature covers
CSRInfo(pub, subject, dns, ips) ==
    [PublicKey |-> pub, Subject |-> subject, DNSNames |-> dns, IPAddresses |-> ips,
     Extensions |-> {}]

\* DER of a CSR: its fields and its signature (signing key, content signed)
CSRDER(pub, subject, dns, ips, sigKey, signed) ==
    [kind |-> "csr", PublicKey |-> pub, Subject |-> subject, DNSNames |-> dns,
     IPAddresses |-> ips, Extensions |-> {}, SigKey |-> sigKey, Signed |-> signed]

\* the CSR made and signed like csr that also requests the extensions exts
RequestingExtensions(csr, exts) ==
    [csr EXCEPT !.Extensions = exts, !.Signed.Extensions = exts]

\* a CSR self-signed with its own key
SelfSignedCSR(pub, subject, dns, ips) ==
    CSRDER(pub, subject, dns, ips, pub, CSRInfo(pub, subject, dns, ips))

\* x509.ParseCertificateRequest: succeeds on the DER of a CSR
ParseCertificateRequestOK(der) == der.kind = "csr"

\* (*x509.CertificateRequest).CheckSignature: the signature was made by the
\* key the CSR declares, over the CSR's content as it is now
CheckSignatureOK(csr) ==
    /\ csr.SigKey = csr.PublicKey
    /\ csr.Signed = [CSRInfo(csr.PublicKey, csr.Subject, csr.DNSNames, csr.IPAddresses)
                        EXCEPT !.Extensions = csr.Extensions]

ApidCSR == SelfSignedCSR(NodeKey, Name("apid", "talos"), <<"apid.local">>, <<"10.0.0.5">>)
PlainCSR == SelfSignedCSR(NodeKey, Name("node", ""), <<>>, <<>>)
\* ApidCSR with a DNS name altered after signing
TamperedCSR ==
    CSRDER(NodeKey, Name("apid", "talos"), <<"evil.local">>, <<"10.0.0.5">>,
           NodeKey, CSRInfo(NodeKey, Name("apid", "talos"), <<"apid.local">>, <<"10.0.0.5">>))
\* a CSR that declares NodeKey but was signed with another key
ForgedCSR ==
    CSRDER(NodeKey, Name("apid", "talos"), <<"apid.local">>, <<"10.0.0.5">>,
           OtherKey, CSRInfo(NodeKey, Name("apid", "talos"), <<"apid.local">>, <<"10.0.0.5">>))

\* ApidCSR, also requesting to be a CA that may sign certificates
GreedyCSR == RequestingExtensions(ApidCSR, {"CA:TRUE", "keyCertSign"})

\* ApidCSR's key, common name and SANs under another Organization
AdminCSR == SelfSignedCSR(NodeKey, Name("apid", "os:admin"), <<"apid.local">>, <<"10.0.0.5">>)

CSRType == "CERTIFICATE REQUEST"
CertType == "CERTIFICATE"

\* request bodies (CertificateRequest.csr)
CSRBodies ==
    { <<>>,
      <<Junk>>,
      <<PEMBlock(CSRType, GarbageDER)>>,
      <<PEMBlock(CSRType, ApidCSR)>>,
      <<PEMBlock(CSRType, PlainCSR)>>,
      <<PEMBlock(CSRType, GreedyCSR)>>,
      <<PEMBlock(CSRType, TamperedCSR)>>,
      <<PEMBlock(CSRType, ForgedCSR)>>,
      <<PEMBlock(CertType, PlainCSR)>>,
      <<Junk, PEMBlock(CSRType, PlainCSR), Junk>> }

(***************************************************************************)
(* Certificates.                                                           *)
(***************************************************************************)
KeyUsageDigitalSignature == "digitalSignature"
KeyUsageKeyEncipherment == "keyEncipherment"
KeyUsageCertSign == "keyCertSign"
ExtKeyUsageServerAuth == "serverAuth"

\* the DER of an X.509 certificate: the fields of x509.Certificate the handler
\* sets or reads, and the private key that signed it
CertDER(serial, subject, issuer, notBefore, notAfter, keyUsage, extKeyUsage, bcValid, isCA, dns, ips, pub, signedBy) ==
    [kind |-> "cert", SerialNumber |-> serial, Subject |-> subject,
     Issuer |-> issuer, NotBefore |-> notBefore, NotAfter |-> notAfter,
     KeyUsage |-> keyUsage, ExtKeyUsage |-> extKeyUsage,
     BasicConstraintsValid |-> bcValid, IsCA |-> isCA, DNSNames |-> dns,
     IPAddresses |-> ips, PublicKey |-> pub, SignedBy |-> signedBy]

\* x509.ParseCertificate: succeeds on the DER of a certificate
ParseCertificateOK(der) == der.kind = "cert"

CAName == Name("talos-ca", "talos")

\* the self-signed CA certificate, whose key pair is CAKey
CACertDER ==
    CertDER(1, CAName, CAName, 0, Validity, {KeyUsageCertSign}, <<>>,
            TRUE, TRUE, <<>>, <<>>, CAKey, CAKey)

\* contents the CA certificate file may have (it is read, never parsed, at startup)
CACertFiles ==
    { <<PEMBlock(CertType, CACertDER)>>,
      <<Junk, PEMBlock(CertType, CACertDER), Junk>>,
      <<>>,
      <<PEMBlock(CertType, GarbageDER)>> }

\* private keys the CA key file may parse to
CAPrivateKeys == {CAKey, OtherKey}

(***************************************************************************)
(* Tokens and request metadata.                                            *)
(***************************************************************************)
TokenChars == {"a", "A", "b", "B"}

\* the same letter in the other case
SwapCase(ch) ==
    CASE ch = "a" -> "A" [] ch = "A" -> "a" [] ch = "b" -> "B" [] ch = "B" -> "b"

\* the token flag: startup refuses an empty token (pkgerrors.ErrMissingToken)
ConfiguredTokens == { <<"a", "b">>, <<"A", "b">> }

StrictPrefixes(t) == {SubSeq(t, 1, k) : k \in 0..(Len(t) - 1)}
Extensions(t) == {t \o <<ch>> : ch \in {"a"}}
CaseVariants(t) ==
    {u \in [1..Len(t) -> TokenChars] :
        u # t /\ \A i \in 1..Len(t) : u[i] \in {t[i], SwapCase(t[i])}}

\* tokens a caller may present to a server whose token is valid: the token
\* itself, its strict prefixes (the empty token among them), an extension of
\* it and its case variants
PresentedTokens(valid) ==
    {valid} \cup StrictPrefixes(valid) \cup Extensions(valid) \cup CaseVariants(valid)

\* no metadata in the context: metadata.FromIncomingContext returns ok = false
NoMD == [ok |-> FALSE, token |-> <<>>, authorization |-> <<>>]

\* metadata: the values under key "token" and under key "authorization"
MD(tokenValues, authValues) ==
    [ok |-> TRUE, token |-> tokenValues, authorization |-> authValues]

\* metadata a caller may send to a server whose token is valid: none at all;
\* no key "token" (and possibly the valid token under "authorization"); one
\* value under "token"; a first value followed by the valid token
Metadata(valid) ==
    {NoMD, MD(<<>>, <<>>), MD(<<>>, <<valid>>)}
    \cup {MD(<<t>>, <<>>) : t \in PresentedTokens(valid)}
    \cup {MD(<<t, valid>>, <<>>) : t \in PresentedTokens(valid)}

\* metadata.FromIncomingContext(ctx): md, ok
FromIncomingContextOK(md) == md.ok

\* mutant: the token is read from the authorization header
mdGetAuthorization(md) == md.authorization

\* md.Get("token")
mdGet(md) == md.token

(***************************************************************************)
(* Results of a call: (response, error).                                   *)
(***************************************************************************)
NoResponse == [nil |-> TRUE, Ca |-> <<>>, Crt |-> <<>>]
CertificateResponse(ca, crt) == [nil |-> FALSE, Ca |-> ca, Crt |-> crt]

NoError == [nil |-> TRUE, code |-> codes.OK, msg |-> ""]
\* status.Error(code, msg); msg is the fixed part of the message
StatusError(code, msg) == [nil |-> FALSE, code |-> code, msg |-> msg]

NoResult == [resp |-> NoResponse, err |-> NoError]

\* the errors the handler returns, by the step that fails
MissingMetadataError == StatusError(codes.Unauthenticated, "missing metadata")
MissingTokenError == StatusError(codes.Unauthenticated, "missing token")
InvalidTokenError == StatusError(codes.Unauthenticated, "invalid token")
DecodeCSRError == StatusError(codes.InvalidArgument, "failed to decode PEM CSR")
ParseCSRError == StatusError(codes.InvalidArgument, "failed to parse CSR")
CSRSignatureError == StatusError(codes.InvalidArgument, "invalid CSR signature")
\* mutant: a CA certificate that does not decode is blamed on the caller
DecodeCAErrorInvalidArgument == StatusError(codes.InvalidArgument, "failed to decode CA certificate")
DecodeCAError == StatusError(codes.Internal, "failed to decode CA certificate")
\* mutant: a CA parse failure is reported as a caller mistake
ParseCAErrorInvalidArgument == StatusError(codes.InvalidArgument, "failed to parse CA cert")
ParseCAError == StatusError(codes.Internal, "failed to parse CA cert")
SerialError == StatusError(codes.Internal, "failed to generate serial")
CreateCertificateError == StatusError(codes.Internal, "failed to create certificate")

(***************************************************************************)
(* The process: flags, files, CA key loading (cmd/main.go).                *)
(***************************************************************************)
\* pkg/errors: the sentinel errors main returns, each known by its message
pkgerrors ==
    [ErrMissingPort |-> "missing gRPC server port",
     ErrPortOutOfRange |-> "gRPC server port is out of range",
     ErrMissingToken |-> "missing Talos token",
     ErrMissingPath |-> "path is required",
     ErrReadFile |-> "failed to read file",
     ErrPemDecoding |-> "failed to decode PEM",
     ErrParseCertificate |-> "failed to parse private key",
     ErrUnsupportedBlockType |-> "unsupported block type",
     ErrLoadingCertificate |-> "failed to load certificate",
     ErrServerListen |-> "failed to listen on given port",
     ErrGRPCServerServe |-> "failed to serve gRPC"]

\* a nil error
NilError == [nil |-> TRUE, is |-> "", msg |-> ""]
\* a sentinel error returned as it is
Sentinel(err) == [nil |-> FALSE, is |-> err, msg |-> ""]
\* errors.Wrap(err, msg): errors.Is(result, err) holds, msg is its annotation
errorsWrap(err, msg) == [nil |-> FALSE, is |-> err, msg |-> msg]

MaxPort == 65535
\* the flags with their defaults
DefaultFlags ==
    [port |-> 50001, caCertPath |-> "/etc/talos-ca/ca.crt",
     caKeyPath |-> "/etc/talos-ca/ca.key",
     tlsCertPath |-> "/etc/talos-server-crt/tls.crt",
     tlsKeyPath |-> "/etc/talos-server-crt/tls.key", token |-> <<>>]
Paths ==
    {DefaultFlags.caCertPath, DefaultFlags.caKeyPath, DefaultFlags.tlsCertPath,
     DefaultFlags.tlsKeyPath}

\* the default flags, and tok as the --talos-token flag
FlagsWithToken(tok) == [DefaultFlags EXCEPT !.token = tok]

\* command lines: the defaults with a token or without one, and a valid
\* command line with one flag set to another port or to an empty path
FlagSets ==
    {FlagsWithToken(t) : t \in ConfiguredTokens \cup {<<>>}}
    \cup {[FlagsWithToken(<<"a", "b">>) EXCEPT !.port = p] :
             p \in {0 - 1, 0, 1, MaxPort, MaxPort + 1}}
    \cup {[FlagsWithToken(<<>>) EXCEPT !.port = 0]}
    \cup {[FlagsWithToken(<<"a", "b">>) EXCEPT !.caCertPath = ""],
          [FlagsWithToken(<<"a", "b">>) EXCEPT !.caKeyPath = ""],
          [FlagsWithToken(<<"a", "b">>) EXCEPT !.tlsCertPath = ""],
          [FlagsWithToken(<<"a", "b">>) EXCEPT !.tlsKeyPath = ""],
          [FlagsWithToken(<<"a", "b">>) EXCEPT !.caKeyPath = "", !.tlsKeyPath = ""]}

\* mutant: the token flag is not required
PreRunETokenOptional(f) ==
    IF f.port <= 0 THEN Sentinel(pkgerrors.ErrMissingPort)
    ELSE IF f.port > MaxPort THEN Sentinel(pkgerrors.ErrPortOutOfRange)
    ELSE IF f.caCertPath = "" THEN errorsWrap(pkgerrors.ErrMissingPath, "CA certificate path is missing")
    ELSE IF f.caKeyPath = "" THEN errorsWrap(pkgerrors.ErrMissingPath, "CA private key path is missing")
    ELSE IF f.tlsCertPath = "" THEN errorsWrap(pkgerrors.ErrMissingPath, "server certificate path is missing")
    ELSE IF f.tlsKeyPath = "" THEN errorsWrap(pkgerrors.ErrMissingPath, "server private key path is missing")
    ELSE NilError

\* rootCmd.PreRunE: the first case of the switch that holds decides
PreRunE(f) ==
    IF f.port <= 0 THEN Sentinel(pkgerrors.ErrMissingPort)
    ELSE IF f.port > MaxPort THEN Sentinel(pkgerrors.ErrPortOutOfRange)
    ELSE IF f.token = <<>> THEN Sentinel(pkgerrors.ErrMissingToken)
    ELSE IF f.caCertPath = "" THEN errorsWrap(pkgerrors.ErrMissingPath, "CA certificate path is missing")
    ELSE IF f.caKeyPath = "" THEN errorsWrap(pkgerrors.ErrMissingPath, "CA private key path is missing")
    ELSE IF f.tlsCertPath = "" THEN errorsWrap(pkgerrors.ErrMissingPath, "server certificate path is missing")
    ELSE IF f.tlsKeyPath = "" THEN errorsWrap(pkgerrors.ErrMissingPath, "server private key path is missing")
    ELSE NilError

\* a file of the file system: absent or unreadable, or its bytes
NoFile == [exists |-> FALSE, data |-> <<>>]
File(data) == [exists |-> TRUE, data |-> data]

\* os.ReadFile(path): data, err
ReadFile(files, path) == [err |-> ~files[path].exists, data |-> files[path].data]

\* DER of a private key: its encoding (pkcs8, ec, pkcs1, dsa) and the key
KeyDER(format, key) == [kind |-> "key", format |-> format, key |-> key]
NoKey == "nil"

\* contents the CA key file may have: the CA key in each supported block type,
\* another key, a block type main does not handle, a block whose bytes are
\* not in the encoding its type announces, bytes that are no key, no PEM
CAKeyFiles ==
    { <<PEMBlock("ED25519 PRIVATE KEY", KeyDER("pkcs8", CAKey))>>,
      <<PEMBlock("PRIVATE KEY", KeyDER("pkcs8", CAKey))>>,
      <<PEMBlock("EC PRIVATE KEY", KeyDER("ec", CAKey))>>,
      <<PEMBlock("RSA PRIVATE KEY", KeyDER("pkcs1", CAKey))>>,
      <<PEMBlock("PRIVATE KEY", KeyDER("pkcs8", OtherKey))>>,
      <<PEMBlock("DSA PRIVATE KEY", KeyDER("pkcs8", CAKey))>>,
      <<PEMBlock("DSA PRIVATE KEY", KeyDER("dsa", CAKey))>>,
      <<PEMBlock("EC PRIVATE KEY", KeyDER("pkcs8", CAKey))>>,
      <<PEMBlock("PRIVATE KEY", GarbageDER)>>,
      <<Junk>> }

NoDecoder == "default"

\* mutant: any block type but the EC and RSA ones is read as PKCS#8
KeyDecoderLenient(type) ==
    CASE type = "EC PRIVATE KEY" -> "x509.ParseECPrivateKey"
      [] type = "RSA PRIVATE KEY" -> "x509.ParsePKCS1PrivateKey"
      [] OTHER -> "x509.ParsePKCS8PrivateKey"

\* switch block.Type: the decoder main calls, NoDecoder in the default case
KeyDecoder(type) ==
    CASE type = "ED25519 PRIVATE KEY" -> "x509.ParsePKCS8PrivateKey"
      [] type = "EC PRIVATE KEY" -> "x509.ParseECPrivateKey"
      [] type = "RSA PRIVATE KEY" -> "x509.ParsePKCS1PrivateKey"
      [] type = "PRIVATE KEY" -> "x509.ParsePKCS8PrivateKey"
      [] OTHER -> NoDecoder

\* the encoding each decoder of crypto/x509 accepts
DecoderFormat(decoder) ==
    CASE decoder = "x509.ParsePKCS8PrivateKey" -> "pkcs8"
      [] decoder = "x509.ParseECPrivateKey" -> "ec"
      [] decoder = "x509.ParsePKCS1PrivateKey" -> "pkcs1"

\* decoder(der): key, err
ParsePrivateKey(decoder, der) ==
    IF der.kind = "key" /\ der.format = DecoderFormat(decoder)
    THEN [err |-> FALSE, key |-> der.key]
    ELSE [err |-> TRUE, key |-> NoKey]

\* the server's own TLS identity, as provisioned on the file system
ServerKey == "kServer"
ServerCertDER ==
    CertDER(2, Name("talos-csr-signer", ""), CAName, 0, Validity,
            {KeyUsageDigitalSignature, KeyUsageKeyEncipherment},
            <<ExtKeyUsageServerAuth>>, FALSE, FALSE, <<"talos-csr-signer">>,
            <<"127.0.0.1">>, ServerKey, CAKey)

\* tls.X509KeyPair(certPEMBlock, keyPEMBlock): the first CERTIFICATE block
\* parses, the key block parses in one of the encodings, and the key is
\* the one of the certificate's public key
X509KeyPairOK(certPEM, keyPEM) ==
    /\ pemDecode(certPEM).found
    /\ pemDecode(certPEM).Type = CertType
    /\ ParseCertificateOK(pemDecode(certPEM).Bytes)
    /\ pemDecode(keyPEM).found
    /\ pemDecode(keyPEM).Bytes.kind = "key"
    /\ pemDecode(keyPEM).Bytes.format \in {"pkcs8", "ec", "pkcs1"}
    /\ pemDecode(keyPEM).Bytes.key = pemDecode(certPEM).Bytes.PublicKey

\* tls.LoadX509KeyPair(certFile, keyFile): both files are read, then paired
LoadX509KeyPairOK(files, certFile, keyFile) ==
    /\ ~ReadFile(files, certFile).err
    /\ ~ReadFile(files, keyFile).err
    /\ X509KeyPairOK(ReadFile(files, certFile).data, ReadFile(files, keyFile).data)

\* the TLS certificate file and key file of the server's identity
ProvisionedTLSFiles ==
    << File(<<PEMBlock(CertType, ServerCertDER)>>),
       File(<<PEMBlock("PRIVATE KEY", KeyDER("pkcs8", ServerKey))>>) >>

\* the TLS certificate and key files: a pair, a key of another certificate,
\* no certificate file
TLSFiles ==
    { ProvisionedTLSFiles,
      <<File(<<PEMBlock(CertType, ServerCertDER)>>),
        File(<<PEMBlock("PRIVATE KEY", KeyDER("pkcs8", OtherKey))>>)>>,
      <<NoFile, File(<<PEMBlock("PRIVATE KEY", KeyDER("pkcs8", ServerKey))>>)>> }

\* the file system with the four files
FileSystem(caCert, caKey, tlsFiles) ==
    [p \in Paths |->
        CASE p = DefaultFlags.caCertPath -> caCert
          [] p = DefaultFlags.caKeyPath -> caKey
          [] p = DefaultFlags.tlsCertPath -> tlsFiles[1]
          [] p = DefaultFlags.tlsKeyPath -> tlsFiles[2]]

FileSystems ==
    {FileSystem(c, k, t) :
        c \in {File(d) : d \in CACertFiles} \cup {NoFile},
        k \in {File(d) : d \in CAKeyFiles} \cup {NoFile},
        t \in TLSFiles}

\* locals of main before it has read anything
NoMainLocals ==
    [caCertPEM |-> <<>>, caKeyPEM |-> <<>>, caPrivateKey |-> NoKey, decoder |-> NoDecoder,
     ctxDone |-> FALSE]

\* the CA key file that holds key in a PKCS#8 "PRIVATE KEY" block
PKCS8KeyFile(key) == <<PEMBlock("PRIVATE KEY", KeyDER("pkcs8", key))>>

(***************************************************************************)
(* State.                                                                  *)
(***************************************************************************)
Callers == {"c1", "c2"}

VARIABLES
    CACert,         \* Server.CACert: the bytes of the CA certificate file
    CAPrivateKey,   \* Server.CAPrivateKey: the parsed CA private key
    ValidToken,     \* Server.ValidToken
    configured,     \* history: the Server value as constructed at startup
    now,            \* the wall clock, in seconds
    pc,             \* pc[c]: where caller c's invocation of Certificate is
    req,            \* req[c]: the metadata and CSR bytes of c's request
    loc,            \* loc[c]: serialNumber, template validity, certDER
    result,         \* result[c]: what Certificate returned to c
    steps,          \* history: steps[c], the steps c's invocation has executed
    flags,          \* main: the values of the command-line flags
    fs,             \* the files main reads, by path
    mainpc,         \* where main is
    mainloc,        \* main's locals
    exitErr,        \* the error main's command returned (the process exits 1)
    listening       \* net.Listen has bound the port

vars == <<CACert, CAPrivateKey, ValidToken, configured, now, pc, req, loc, result, steps, flags, fs, mainpc, mainloc, exitErr, listening>>
\* the process outside its request handler
process == <<flags, fs, mainpc, mainloc, exitErr, listening>>
\* what a request handler may read and does not write
server == <<CACert, CAPrivateKey, ValidToken, configured, process>>
\* the state of the invocations of Certificate
handler == <<now, pc, req, loc, result, steps>>

NoRequest == [md |-> NoMD, csr |-> <<>>]
NoLocals == [serialNumber |-> 0, NotBefore |-> 0, NotAfter |-> 0, certDER |-> NoDER]

\* mutant: the CSR is decoded, parsed and verified before the token is compared
StepOrderCSRFirst ==
    << "metadata", "token", "decode", "parse", "checksig", "compare",
       "cadecode", "caparse", "serial", "notbefore", "notafter", "sign", "respond" >>

\* mutant: the CA certificate is re-derived before the CSR is validated
StepOrderCAFirst ==
    << "metadata", "token", "compare", "cadecode", "caparse", "decode", "parse",
       "checksig", "serial", "notbefore", "notafter", "sign", "respond" >>

\* the statements of Certificate, in program order
StepOrder ==
    << "metadata", "token", "compare", "decode", "parse", "checksig",
       "cadecode", "caparse", "serial", "notbefore", "notafter", "sign", "respond" >>

IndexOf(s) == CHOOSE i \in 1..Len(StepOrder) : StepOrder[i] = s

\* the statement that follows statement s when s does not return
NextStep(s) ==
    IF IndexOf(s) < Len(StepOrder) THEN StepOrder[IndexOf(s) + 1] ELSE "done"

Init ==
    /\ CACert \in CACertFiles
    /\ CAPrivateKey \in CAPrivateKeys
    /\ ValidToken \in ConfiguredTokens
    /\ configured = [CACert |-> CACert, CAPrivateKey |-> CAPrivateKey,
                     ValidToken |-> ValidToken]
    /\ now = 0
    /\ pc = [c \in Callers |-> "idle"]
    /\ req = [c \in Callers |-> NoRequest]
    /\ loc = [c \in Callers |-> NoLocals]
    /\ result = [c \in Callers |-> NoResult]
    /\ steps = [c \in Callers |-> <<>>]
    /\ flags = FlagsWithToken(ValidToken)
    /\ fs = FileSystem(File(CACert), File(PKCS8KeyFile(CAPrivateKey)), ProvisionedTLSFiles)
    /\ mainpc = "Serve"
    /\ mainloc = [caCertPEM |-> CACert, caKeyPEM |-> PKCS8KeyFile(CAPrivateKey),
                  caPrivateKey |-> CAPrivateKey, decoder |-> "x509.ParsePKCS8PrivateKey",
                  ctxDone |-> FALSE]
    /\ exitErr = NilError
    /\ listening = TRUE

(***************************************************************************)
(* Locals of an invocation that are functions of the request and server.   *)
(***************************************************************************)
\* block, _ := pem.Decode(req.GetCsr())
block(c) == pemDecode(req[c].csr)
\* csr, err := x509.ParseCertificateRequest(block.Bytes)
csr(c) == block(c).Bytes
\* caBlock, _ := pem.Decode(s.CACert)
caBlock == pemDecode(CACert)
\* caCert, err := x509.ParseCertificate(caBlock.Bytes)
caCert == caBlock.Bytes

\* statement s of c's invocation falls through to the next statement
Continue(c, s) ==
    /\ pc' = [pc EXCEPT ![c] = NextStep(s)]
    /\ steps' = [steps EXCEPT ![c] = Append(@, s)]
    /\ UNCHANGED <<server, now, req, loc, result>>

\* mutant: an error is returned together with a response holding the CA only
ReturnErrorWithCA(c, s, err) ==
    /\ pc' = [pc EXCEPT ![c] = "done"]
    /\ steps' = [steps EXCEPT ![c] = Append(@, s)]
    /\ result' = [result EXCEPT ![c] =
                     [resp |-> CertificateResponse(CACert, <<>>), err |-> err]]
    /\ UNCHANGED <<server, now, req, loc>>

\* statement s of c's invocation returns nil, err
ReturnError(c, s, err) ==
    /\ pc' = [pc EXCEPT ![c] = "done"]
    /\ steps' = [steps EXCEPT ![c] = Append(@, s)]
    /\ result' = [result EXCEPT ![c] = [resp |-> NoResponse, err |-> err]]
    /\ UNCHANGED <<server, now, req, loc>>

(***************************************************************************)
(* Server.Certificate, statement by statement.  Between two statements of  *)
(* one invocation the clock may advance and other callers may run.         *)
(***************************************************************************)
\* mutant: a request equal to one just answered is answered with that response
ReceiveReplayed(c, md, body) ==
    /\ pc[c] = "idle"
    /\ req' = [req EXCEPT ![c] = [md |-> md, csr |-> body]]
    /\ loc' = [loc EXCEPT ![c] = NoLocals]
    /\ steps' = [steps EXCEPT ![c] = <<>>]
    /\ IF \E d \in Callers : pc[d] = "done" /\ result[d].err.nil /\ req[d] = [md |-> md, csr |-> body]
       THEN /\ pc' = [pc EXCEPT ![c] = "done"]
            /\ result' = [result EXCEPT ![c] =
                             result[CHOOSE d \in Callers : pc[d] = "done" /\ result[d].err.nil /\ req[d] = [md |-> md, csr |-> body]]]
       ELSE /\ pc' = [pc EXCEPT ![c] = StepOrder[1]]
            /\ result' = [result EXCEPT ![c] = NoResult]
    /\ UNCHANGED <<server, now>>

\* the transport invokes Certificate(ctx, req) for caller c
Receive(c, md, body) ==
    /\ pc[c] = "idle"
    /\ pc' = [pc EXCEPT ![c] = StepOrder[1]]
    /\ req' = [req EXCEPT ![c] = [md |-> md, csr |-> body]]
    /\ loc' = [loc EXCEPT ![c] = NoLocals]
    /\ result' = [result EXCEPT ![c] = NoResult]
    /\ steps' = [steps EXCEPT ![c] = <<>>]
    /\ UNCHANGED <<server, now>>

\* md, ok := metadata.FromIncomingContext(ctx); if !ok { return ... }
GetMetadata(c) ==
    /\ pc[c] = "metadata"
    /\ IF FromIncomingContextOK(req[c].md)
       THEN Continue(c, "metadata")
       ELSE ReturnError(c, "metadata", MissingMetadataError)

\* tokenHeader := md.Get("token"); if len(tokenHeader) == 0 { return ... }
GetToken(c) ==
    /\ pc[c] = "token"
    /\ IF Len(mdGet(req[c].md)) # 0
       THEN Continue(c, "token")
       ELSE ReturnError(c, "token", MissingTokenError)

\* token := tokenHeader[0]
token(c) == IF Len(mdGet(req[c].md)) # 0 THEN mdGet(req[c].md)[1] ELSE <<>>

\* mutant: the tokens are compared without regard to case (strings.EqualFold)
tokenMismatchFold(tok, valid) ==
    \/ Len(tok) # Len(valid)
    \/ \E i \in 1..Len(tok) : tok[i] \notin {valid[i], SwapCase(valid[i])}

\* token != s.ValidToken
tokenMismatch(tok, valid) == tok # valid

\* mutant: a refused caller is told whether its CSR body holds a PEM block
CompareTokenLeaky(c) ==
    /\ pc[c] = "compare"
    /\ IF ~tokenMismatch(token(c), ValidToken)
       THEN Continue(c, "compare")
       ELSE ReturnError(c, "compare", IF pemDecode(req[c].csr).found
                                      THEN InvalidTokenError
                                      ELSE StatusError(codes.Unauthenticated, "invalid token or CSR"))

\* if token != s.ValidToken { return ... }
CompareToken(c) ==
    /\ pc[c] = "compare"
    /\ IF ~tokenMismatch(token(c), ValidToken)
       THEN Continue(c, "compare")
       ELSE ReturnError(c, "compare", InvalidTokenError)

\* block, _ := pem.Decode(req.GetCsr()); if block == nil { return ... }
DecodeCSR(c) ==
    /\ pc[c] = "decode"
    /\ IF block(c).found
       THEN Continue(c, "decode")
       ELSE ReturnError(c, "decode", DecodeCSRError)

\* csr, err := x509.ParseCertificateRequest(block.Bytes); if err != nil { return ... }
ParseCSR(c) ==
    /\ pc[c] = "parse"
    /\ IF ParseCertificateRequestOK(csr(c))
       THEN Continue(c, "parse")
       ELSE ReturnError(c, "parse", ParseCSRError)

\* mutant: the CSR's self-signature is not checked
CheckCSRSignatureSkipped(c) ==
    /\ pc[c] = "checksig"
    /\ Continue(c, "checksig")

\* if err := csr.CheckSignature(); err != nil { return ... }
CheckCSRSignature(c) ==
    /\ pc[c] = "checksig"
    /\ IF ParseCertificateRequestOK(csr(c)) /\ CheckSignatureOK(csr(c))
       THEN Continue(c, "checksig")
       ELSE ReturnError(c, "checksig", CSRSignatureError)

\* caBlock, _ := pem.Decode(s.CACert); if caBlock == nil { return ... }
DecodeCA(c) ==
    /\ pc[c] = "cadecode"
    /\ IF caBlock.found
       THEN Continue(c, "cadecode")
       ELSE ReturnError(c, "cadecode", DecodeCAError)

\* caCert, err := x509.ParseCertificate(caBlock.Bytes); if err != nil { return ... }
ParseCA(c) ==
    /\ pc[c] = "caparse"
    /\ IF ParseCertificateOK(caCert)
       THEN Continue(c, "caparse")
       ELSE ReturnError(c, "caparse", ParseCAError)

\* mutant: the limit itself may be drawn, zero may not
RandomSerialsClosed == 1..MaxSerial

\* the values rand.Int(rand.Reader, 1 << 128) may return: MaxSerial stands for
\* the limit 1 << 128, and the model draws from [0, MaxSerial)
RandomSerials == 0..(MaxSerial - 1)

\* generateSerialNumber(): a value of the random source, or its error
generateSerialNumber == [err : {TRUE}, n : {0}] \cup [err : {FALSE}, n : RandomSerials]

\* mutant: the serial number is kept in a place all invocations share
GenerateSerialShared(c) ==
    /\ pc[c] = "serial"
    /\ \E r \in generateSerialNumber :
          IF ~r.err
          THEN /\ pc' = [pc EXCEPT ![c] = NextStep("serial")]
               /\ steps' = [steps EXCEPT ![c] = Append(@, "serial")]
               /\ loc' = [d \in Callers |-> [loc[d] EXCEPT !.serialNumber = r.n]]
               /\ UNCHANGED <<server, now, req, result>>
          ELSE ReturnError(c, "serial", SerialError)

\* serialNumber, err := generateSerialNumber(); if err != nil { return ... }
GenerateSerial(c) ==
    /\ pc[c] = "serial"
    /\ \E r \in generateSerialNumber :
          IF ~r.err
          THEN /\ pc' = [pc EXCEPT ![c] = NextStep("serial")]
               /\ steps' = [steps EXCEPT ![c] = Append(@, "serial")]
               /\ loc' = [loc EXCEPT ![c].serialNumber = r.n]
               /\ UNCHANGED <<server, now, req, result>>
          ELSE ReturnError(c, "serial", SerialError)

\* NotBefore: time.Now()
ReadNotBefore(c) ==
    /\ pc[c] = "notbefore"
    /\ pc' = [pc EXCEPT ![c] = NextStep("notbefore")]
    /\ steps' = [steps EXCEPT ![c] = Append(@, "notbefore")]
    /\ loc' = [loc EXCEPT ![c].NotBefore = now]
    /\ UNCHANGED <<server, now, req, result>>

\* NotAfter: time.Now().Add(365 * 24 * time.Hour)
ReadNotAfter(c) ==
    /\ pc[c] = "notafter"
    /\ pc' = [pc EXCEPT ![c] = NextStep("notafter")]
    /\ steps' = [steps EXCEPT ![c] = Append(@, "notafter")]
    /\ loc' = [loc EXCEPT ![c].NotAfter = now + Validity]
    /\ UNCHANGED <<server, now, req, result>>

\* mutant: the template takes CA capability and key usage from the CSR
templateFromCSR(c) ==
    [SerialNumber |-> loc[c].serialNumber,
     Subject |-> csr(c).Subject,
     NotBefore |-> loc[c].NotBefore,
     NotAfter |-> loc[c].NotAfter,
     KeyUsage |-> {KeyUsageDigitalSignature, KeyUsageKeyEncipherment}
                     \cup (csr(c).Extensions \cap {KeyUsageCertSign}),
     ExtKeyUsage |-> <<ExtKeyUsageServerAuth>>,
     BasicConstraintsValid |-> TRUE,
     IsCA |-> "CA:TRUE" \in csr(c).Extensions,
     DNSNames |-> csr(c).DNSNames,
     IPAddresses |-> csr(c).IPAddresses]

\* template := &x509.Certificate{...}
template(c) ==
    [SerialNumber |-> loc[c].serialNumber,
     Subject |-> csr(c).Subject,
     NotBefore |-> loc[c].NotBefore,
     NotAfter |-> loc[c].NotAfter,
     KeyUsage |-> {KeyUsageDigitalSignature, KeyUsageKeyEncipherment},
     ExtKeyUsage |-> <<ExtKeyUsageServerAuth>>,
     BasicConstraintsValid |-> TRUE,
     IsCA |-> FALSE,
     DNSNames |-> csr(c).DNSNames,
     IPAddresses |-> csr(c).IPAddresses]

\* x509.CreateCertificate fails when priv is not the key of parent's public
\* key.  The signer is taken to be one that does not read the random source,
\* which the handler passes as nil (Ed25519, the key type of a Talos CA).
CreateCertificateOK(parent, priv) == parent.PublicKey = priv

\* mutant: the template is passed as its own parent (a self-issued certificate)
CreateCertificateSelfIssued(tmpl, parent, pub, priv) ==
    CertDER(tmpl.SerialNumber, tmpl.Subject, tmpl.Subject, tmpl.NotBefore,
            tmpl.NotAfter, tmpl.KeyUsage, tmpl.ExtKeyUsage,
            tmpl.BasicConstraintsValid, tmpl.IsCA, tmpl.DNSNames,
            tmpl.IPAddresses, pub, priv)

\* x509.CreateCertificate(nil, template, parent, pub, priv): the certificate
\* takes its fields from template, its issuer from parent's subject, its
\* public key from pub, and is signed with priv
CreateCertificate(tmpl, parent, pub, priv) ==
    CertDER(tmpl.SerialNumber, tmpl.Subject, parent.Subject, tmpl.NotBefore,
            tmpl.NotAfter, tmpl.KeyUsage, tmpl.ExtKeyUsage,
            tmpl.BasicConstraintsValid, tmpl.IsCA, tmpl.DNSNames,
            tmpl.IPAddresses, pub, priv)

\* certDER, err := x509.CreateCertificate(...); if err != nil { return ... }
Sign(c) ==
    /\ pc[c] = "sign"
    /\ IF ParseCertificateOK(caCert) /\ ParseCertificateRequestOK(csr(c))
          /\ CreateCertificateOK(caCert, CAPrivateKey)
       THEN /\ pc' = [pc EXCEPT ![c] = NextStep("sign")]
            /\ steps' = [steps EXCEPT ![c] = Append(@, "sign")]
            /\ loc' = [loc EXCEPT ![c].certDER =
                          CreateCertificate(template(c), caCert, csr(c).PublicKey,
                                            CAPrivateKey)]
            /\ UNCHANGED <<server, now, req, result>>
       ELSE ReturnError(c, "sign", CreateCertificateError)

\* mutant: the response carries the re-encoded CA block instead of s.CACert
responseReencodedCA(ca, certDER) ==
    CertificateResponse(pemEncodeToMemory(pemDecode(ca).Type, pemDecode(ca).Bytes),
                        pemEncodeToMemory(CertType, certDER))

\* the response: Ca: s.CACert, Crt: certPEM
response(ca, certDER) == CertificateResponse(ca, pemEncodeToMemory(CertType, certDER))

\* certPEM := pem.EncodeToMemory(...); return &pb.CertificateResponse{...}, nil
Respond(c) ==
    /\ pc[c] = "respond"
    /\ pc' = [pc EXCEPT ![c] = NextStep("respond")]
    /\ steps' = [steps EXCEPT ![c] = Append(@, "respond")]
    /\ result' = [result EXCEPT ![c] =
                     [resp |-> response(CACert, loc[c].certDER), err |-> NoError]]
    /\ UNCHANGED <<server, now, req, loc>>

\* mutant: the serial and validity of the last certificate issued are kept
ReturnKeepingRecord(c) ==
    /\ pc[c] = "done"
    /\ pc' = [pc EXCEPT ![c] = "idle"]
    /\ req' = [req EXCEPT ![c] = NoRequest]
    /\ result' = [result EXCEPT ![c] = NoResult]
    /\ steps' = [steps EXCEPT ![c] = <<>>]
    /\ UNCHANGED <<server, now, loc>>

\* the transport delivers what Certificate returned; the invocation is over
Return(c) ==
    /\ pc[c] = "done"
    /\ pc' = [pc EXCEPT ![c] = "idle"]
    /\ req' = [req EXCEPT ![c] = NoRequest]
    /\ loc' = [loc EXCEPT ![c] = NoLocals]
    /\ result' = [result EXCEPT ![c] = NoResult]
    /\ steps' = [steps EXCEPT ![c] = <<>>]
    /\ UNCHANGED <<server, now>>

\* the wall clock advances by a second
Tick ==
    /\ now < MaxClock
    /\ now' = now + 1
    /\ UNCHANGED <<server, pc, req, loc, result, steps>>

\* one statement of c's invocation of Certificate
Certificate(c) ==
    \/ GetMetadata(c)
    \/ GetToken(c)
    \/ CompareToken(c)
    \/ DecodeCSR(c)
    \/ ParseCSR(c)
    \/ CheckCSRSignature(c)
    \/ DecodeCA(c)
    \/ ParseCA(c)
    \/ GenerateSerial(c)
    \/ ReadNotBefore(c)
    \/ ReadNotAfter(c)
    \/ Sign(c)
    \/ Respond(c)

\* Spec serves one invocation at a time, over every request of Metadata and
\* CSRBodies; the invocation reads the server and the clock and writes only
\* its own locals.
SerialCallers == {"c1"}

Next ==
    \/ \E c \in SerialCallers :
          \E md \in Metadata(ValidToken), body \in CSRBodies : Receive(c, md, body)
    \/ \E c \in SerialCallers : Certificate(c)
    \/ \E c \in SerialCallers : Return(c)
    \/ Tick

Spec == Init /\ [][Next]_vars

(***************************************************************************)
(* main (cmd/main.go): PreRunE, then RunE statement by statement.          *)
(***************************************************************************)
\* the state before main has run: no Server has been constructed
InitMain ==
    /\ flags \in FlagSets
    /\ fs \in FileSystems
    /\ mainpc = "PreRunE"
    /\ mainloc = NoMainLocals
    /\ exitErr = NilError
    /\ listening = FALSE
    /\ CACert = <<>>
    /\ CAPrivateKey = NoKey
    /\ ValidToken = <<>>
    /\ configured = [CACert |-> <<>>, CAPrivateKey |-> NoKey, ValidToken |-> <<>>]
    /\ now = 0
    /\ pc = [c \in Callers |-> "idle"]
    /\ req = [c \in Callers |-> NoRequest]
    /\ loc = [c \in Callers |-> NoLocals]
    /\ result = [c \in Callers |-> NoResult]
    /\ steps = [c \in Callers |-> <<>>]

\* main goes on to statement next
MainGoto(next) ==
    /\ mainpc' = next
    /\ UNCHANGED <<exitErr, flags, fs, listening, CACert, CAPrivateKey, ValidToken, configured, handler>>

\* the command returns err: main prints it and exits with status 1
MainReturn(err) ==
    /\ mainpc' = "exited"
    /\ exitErr' = err
    /\ UNCHANGED <<flags, fs, listening, CACert, CAPrivateKey, ValidToken, configured, handler>>

\* PreRunE: func(*cobra.Command, []string) error { switch {...} }
MainPreRunE ==
    /\ mainpc = "PreRunE"
    /\ IF PreRunE(flags).nil THEN MainGoto("ReadCACert") ELSE MainReturn(PreRunE(flags))
    /\ UNCHANGED mainloc

\* caCertPEM, caCertErr := os.ReadFile(caCertPath); if caCertErr != nil { return ... }
MainReadCACert ==
    /\ mainpc = "ReadCACert"
    /\ IF ~ReadFile(fs, flags.caCertPath).err
       THEN /\ MainGoto("ReadCAKey")
            /\ mainloc' = [mainloc EXCEPT !.caCertPEM = ReadFile(fs, flags.caCertPath).data]
       ELSE /\ MainReturn(errorsWrap(pkgerrors.ErrReadFile, "failed to read CA certificate"))
            /\ UNCHANGED mainloc

\* caKeyPEM, caKeyErr := os.ReadFile(caKeyPath); if caKeyErr != nil { return ... }
MainReadCAKey ==
    /\ mainpc = "ReadCAKey"
    /\ IF ~ReadFile(fs, flags.caKeyPath).err
       THEN /\ MainGoto("DecodeCAKey")
            /\ mainloc' = [mainloc EXCEPT !.caKeyPEM = ReadFile(fs, flags.caKeyPath).data]
       ELSE /\ MainReturn(errorsWrap(pkgerrors.ErrReadFile, "failed to read CA private key"))
            /\ UNCHANGED mainloc

\* block, _ := pem.Decode(caKeyPEM)
keyBlock == pemDecode(mainloc.caKeyPEM)

\* if block == nil { return pkgerrors.ErrPemDecoding }
MainDecodeCAKey ==
    /\ mainpc = "DecodeCAKey"
    /\ IF keyBlock.found THEN MainGoto("ParseCAKey") ELSE MainReturn(Sentinel(pkgerrors.ErrPemDecoding))
    /\ UNCHANGED mainloc

\* switch block.Type {...}; if privateKeyErr != nil { return ... }
MainParseCAKey ==
    /\ mainpc = "ParseCAKey"
    /\ LET decoder == KeyDecoder(keyBlock.Type)
           parsed == ParsePrivateKey(decoder, keyBlock.Bytes)
       IN  IF decoder = NoDecoder
           THEN /\ MainReturn(errorsWrap(pkgerrors.ErrUnsupportedBlockType, keyBlock.Type))
                /\ UNCHANGED mainloc
           ELSE IF parsed.err
           THEN /\ MainReturn(errorsWrap(pkgerrors.ErrParseCertificate, "x509: failed to parse private key"))
                /\ mainloc' = [mainloc EXCEPT !.decoder = decoder]
           ELSE /\ MainGoto("LoadKeyPair")
                /\ mainloc' = [mainloc EXCEPT !.decoder = decoder,
                                              !.caPrivateKey = parsed.key]

\* cert, crtErr := tls.LoadX509KeyPair(tlsCertPath, tlsKeyPath); if crtErr != nil { return ... }
MainLoadKeyPair ==
    /\ mainpc = "LoadKeyPair"
    /\ IF LoadX509KeyPairOK(fs, flags.tlsCertPath, flags.tlsKeyPath)
       THEN MainGoto("NewServer")
       ELSE MainReturn(errorsWrap(pkgerrors.ErrLoadingCertificate, "tls: failed to load key pair"))
    /\ UNCHANGED mainloc

\* mutant: the Server is constructed without the token
MainNewServerNoToken ==
    /\ mainpc = "NewServer"
    /\ mainpc' = "Listen"
    /\ CACert' = mainloc.caCertPEM
    /\ CAPrivateKey' = mainloc.caPrivateKey
    /\ ValidToken' = <<>>
    /\ configured' = [CACert |-> mainloc.caCertPEM, CAPrivateKey |-> mainloc.caPrivateKey,
                      ValidToken |-> <<>>]
    /\ UNCHANGED <<flags, fs, mainloc, exitErr, listening, handler>>

\* srv := &server.Server{CACert: caCertPEM, CAPrivateKey: caPrivateKey, ValidToken: token}
MainNewServer ==
    /\ mainpc = "NewServer"
    /\ mainpc' = "Listen"
    /\ CACert' = mainloc.caCertPEM
    /\ CAPrivateKey' = mainloc.caPrivateKey
    /\ ValidToken' = flags.token
    /\ configured' = [CACert |-> mainloc.caCertPEM, CAPrivateKey |-> mainloc.caPrivateKey,
                      ValidToken |-> flags.token]
    /\ UNCHANGED <<flags, fs, mainloc, exitErr, listening, handler>>

\* lis, err := net.Listen("tcp", ...); if err != nil { return ... };
\* grpcServer.Serve(lis): the port is bound, or it cannot be
MainListen ==
    /\ mainpc = "Listen"
    /\ \E bound \in BOOLEAN :
          IF bound
          THEN /\ mainpc' = "Serve"
               /\ listening' = TRUE
               /\ UNCHANGED <<exitErr, flags, fs, CACert, CAPrivateKey, ValidToken, configured, handler>>
          ELSE MainReturn(errorsWrap(pkgerrors.ErrServerListen, "address already in use"))
    /\ UNCHANGED mainloc

\* main from its first statement; once it serves, invocations of Certificate
\* with the configured token or an empty token, and a CSR
NextMain ==
    \/ MainPreRunE
    \/ MainReadCACert
    \/ MainReadCAKey
    \/ MainDecodeCAKey
    \/ MainParseCAKey
    \/ MainLoadKeyPair
    \/ MainNewServer
    \/ MainListen
    \/ \E c \in SerialCallers, tok \in {ValidToken, <<>>} :
          /\ mainpc = "Serve"
          /\ Receive(c, MD(<<tok>>, <<>>), <<PEMBlock(CSRType, PlainCSR)>>)
    \/ \E c \in SerialCallers : Certificate(c)
    \/ \E c \in SerialCallers : Return(c)

SpecMain == InitMain /\ [][NextMain]_vars

(***************************************************************************)
(* main with the signals it registers for and the return of the serve      *)
(* loop.                                                                   *)
(***************************************************************************)
\* ctx, stop := signal.NotifyContext(context.Background(), SIGINT, SIGTERM):
\* a registered signal no longer ends the process, its delivery cancels ctx
MainSignal ==
    /\ mainpc # "exited"
    /\ ~mainloc.ctxDone
    /\ mainloc' = [mainloc EXCEPT !.ctxDone = TRUE]
    /\ UNCHANGED <<mainpc, exitErr, flags, fs, listening, CACert, CAPrivateKey, ValidToken, configured, handler>>

\* if err = grpcServer.Serve(lis); err != nil && !errors.Is(err, grpc.ErrServerStopped)
\* { return errors.Wrap(ErrGRPCServerServe, err.Error()) }; return nil.
\* Serve returns when the listener fails; it returns grpc.ErrServerStopped or
\* nil only after Stop or GracefulStop, which main calls nowhere and which
\* nothing reads ctx to call.
MainServe ==
    /\ mainpc = "Serve"
    /\ \E err \in {"accept tcp: too many open files"} :
          /\ mainpc' = "exited"
          /\ exitErr' = IF err # "" /\ err # "grpc: the server has been stopped"
                        THEN errorsWrap(pkgerrors.ErrGRPCServerServe, err)
                        ELSE NilError
    /\ listening' = FALSE
    /\ UNCHANGED <<flags, fs, mainloc, CACert, CAPrivateKey, ValidToken, configured, handler>>

\* main and the invocations it serves until the process exits, signals at
\* any time, and the return of the serve loop
NextServe ==
    \/ MainPreRunE
    \/ MainReadCACert
    \/ MainReadCAKey
    \/ MainDecodeCAKey
    \/ MainParseCAKey
    \/ MainLoadKeyPair
    \/ MainNewServer
    \/ MainListen
    \/ MainSignal
    \/ MainServe
    \/ \E c \in SerialCallers :
          /\ mainpc = "Serve"
          /\ Receive(c, MD(<<ValidToken>>, <<>>), <<PEMBlock(CSRType, PlainCSR)>>)
    \/ \E c \in SerialCallers : mainpc = "Serve" /\ Certificate(c)
    \/ \E c \in SerialCallers : mainpc = "Serve" /\ Return(c)

\* the statements of main and of an invocation under way are executed; the
\* arrival of a request, of a signal or of a listener failure is not owed
SpecServe ==
    /\ InitMain
    /\ [][NextServe]_vars
    /\ WF_vars(MainPreRunE \/ MainReadCACert \/ MainReadCAKey \/ MainDecodeCAKey
                  \/ MainParseCAKey \/ MainLoadKeyPair \/ MainNewServer \/ MainListen)
    /\ \A c \in SerialCallers :
          WF_vars(mainpc = "Serve" /\ (Certificate(c) \/ Return(c)))

(***************************************************************************)
(* The single-file main that mints the server's own certificate at         *)
(* startup: main and generateServerCert (README.md, main.go).              *)
(***************************************************************************)
MaxIPsLen == 3

\* the values main takes when the environment leaves them empty
LegacyDefaults ==
    [PORT |-> "50001", CA_CERT_PATH |-> "/etc/talos-csr-signer/ca.crt",
     CA_KEY_PATH |-> "/etc/talos-csr-signer/ca.key"]

\* IP literals; an environment value is a text made of IP literals, blanks
\* and separators
IPLiterals == {"10.10.10.101", "0:0:0:0:0:0:0:1"}

\* values of SERVER_IPS: texts of up to MaxIPsLen pieces
RECURSIVE TextsUpTo(_)
TextsUpTo(n) ==
    IF n = 0 THEN { <<>> }
    ELSE TextsUpTo(n - 1)
         \cup {Append(t, ch) : t \in {u \in TextsUpTo(n - 1) : Len(u) = n - 1}, ch \in (IPLiterals \cup {" ", ","})}

\* the environment: TALOS_TOKEN and SERVER_IPS; PORT, CA_CERT_PATH and
\* CA_KEY_PATH are unset
Environments ==
    {[PORT |-> "", CA_CERT_PATH |-> "", CA_KEY_PATH |-> "",
      TALOS_TOKEN |-> <<"a", "b">>, SERVER_IPS |-> ips] : ips \in TextsUpTo(MaxIPsLen)}
    \cup {[PORT |-> "", CA_CERT_PATH |-> "", CA_KEY_PATH |-> "",
           TALOS_TOKEN |-> <<>>, SERVER_IPS |-> <<>>]}

LegacyFileSystems ==
    {[p \in {LegacyDefaults.CA_CERT_PATH, LegacyDefaults.CA_KEY_PATH} |-> IF p = LegacyDefaults.CA_CERT_PATH THEN c ELSE k] :
        c \in {File(<<PEMBlock(CertType, CACertDER)>>),
               File(<<PEMBlock(CertType, GarbageDER)>>), File(<<>>), NoFile},
        k \in {File(<<PEMBlock("ED25519 PRIVATE KEY", KeyDER("pkcs8", CAKey))>>),
               File(<<PEMBlock("ED25519 PRIVATE KEY", KeyDER("pkcs8", OtherKey))>>),
               File(<<PEMBlock("DSA PRIVATE KEY", KeyDER("pkcs8", CAKey))>>),
               File(<<PEMBlock("EC PRIVATE KEY", KeyDER("pkcs8", CAKey))>>),
               File(<<Junk>>), NoFile}}

\* strings.Split(s, ","): the pieces of s between separators, empty ones too
RECURSIVE stringsSplit(_)
stringsSplit(s) ==
    IF \A i \in 1..Len(s) : s[i] # ","
    THEN << s >>
    ELSE LET i == CHOOSE k \in 1..Len(s) : s[k] = "," /\ \A j \in 1..(k - 1) : s[j] # ","
         IN  << SubSeq(s, 1, i - 1) >> \o stringsSplit(SubSeq(s, i + 1, Len(s)))

\* the address an IP literal denotes
IPOf(literal) == IF literal = "0:0:0:0:0:0:0:1" THEN "::1" ELSE literal

\* net.ParseIP(s): the address when the whole of s is one IP literal, else nil
netParseIP(s) ==
    IF Len(s) = 1 /\ s[1] \in IPLiterals
    THEN [nil |-> FALSE, ip |-> IPOf(s[1])]
    ELSE [nil |-> TRUE, ip |-> ""]

\* mutant: the loopback address is added after the configured ones
RECURSIVE parseServerIPsLoopbackLast(_)
parseServerIPsLoopbackLast(serverIPs) ==
    IF serverIPs = <<>> THEN << "127.0.0.1" >>
    ELSE (IF netParseIP(Head(serverIPs)).nil THEN <<>> ELSE << netParseIP(Head(serverIPs)).ip >>)
         \o parseServerIPsLoopbackLast(Tail(serverIPs))

\* the configured entries that parse, in order (the loop of generateServerCert)
RECURSIVE appendParsed(_, _)
appendParsed(ipAddresses, serverIPs) ==
    IF serverIPs = <<>> THEN ipAddresses
    ELSE appendParsed(IF netParseIP(Head(serverIPs)).nil
                      THEN ipAddresses
                      ELSE Append(ipAddresses, netParseIP(Head(serverIPs)).ip),
                      Tail(serverIPs))

\* ipAddresses := []net.IP{net.ParseIP("127.0.0.1")}; for _, ipStr := range serverIPs {...}
parseServerIPs(serverIPs) == appendParsed(<< "127.0.0.1" >>, serverIPs)

ServerDNSNames ==
    << "talos-csr-signer", "talos-csr-signer.default", "talos-csr-signer.default.svc",
       "talos-csr-signer.default.svc.cluster.local" >>

\* a tls.Certificate: the chain and the private key; the zero value
NoTLSCertificate == [nil |-> TRUE, Certificate |-> <<>>, PrivateKey |-> NoKey]
TLSCertificate(chain, key) == [nil |-> FALSE, Certificate |-> chain, PrivateKey |-> key]

NoLegacyLocals ==
    [caCertPEM |-> <<>>, caKeyPEM |-> <<>>, caPrivateKey |-> NoKey, decoder |-> NoDecoder,
     serverIPs |-> <<>>, priv |-> NoKey, serialNumber |-> 0, ipAddresses |-> <<>>,
     NotBefore |-> 0, NotAfter |-> 0, certDER |-> NoDER, cert |-> NoTLSCertificate,
     bootstraps |-> 0]

InitLegacy ==
    /\ flags \in Environments
    /\ fs \in LegacyFileSystems
    /\ mainpc = "Getenv"
    /\ mainloc = NoLegacyLocals
    /\ exitErr = NilError
    /\ listening = FALSE
    /\ CACert = <<>>
    /\ CAPrivateKey = NoKey
    /\ ValidToken = <<>>
    /\ configured = [CACert |-> <<>>, CAPrivateKey |-> NoKey, ValidToken |-> <<>>]
    /\ now = 0
    /\ pc = [c \in Callers |-> "idle"]
    /\ req = [c \in Callers |-> NoRequest]
    /\ loc = [c \in Callers |-> NoLocals]
    /\ result = [c \in Callers |-> NoResult]
    /\ steps = [c \in Callers |-> <<>>]

\* log.Fatal(msg): the process exits with status 1
Fatal(msg) == MainReturn([nil |-> FALSE, is |-> "log.Fatal", msg |-> msg])

\* port, caCertPath, caKeyPath, token := os.Getenv(...); serverIPs
LegacyGetenv ==
    /\ mainpc = "Getenv"
    /\ IF flags.TALOS_TOKEN = <<>>
       THEN /\ Fatal("TALOS_TOKEN environment variable is required")
            /\ UNCHANGED mainloc
       ELSE /\ MainGoto("LoadCA")
            /\ mainloc' = [mainloc EXCEPT !.serverIPs =
                              IF flags.SERVER_IPS # <<>>
                              THEN stringsSplit(flags.SERVER_IPS) ELSE <<>>]

\* caCertPEM, caKeyPEM := os.ReadFile(...); block := pem.Decode(caKeyPEM);
\* switch block.Type {...}: each failure is a log.Fatal
LegacyLoadCA ==
    /\ mainpc = "LoadCA"
    /\ LET legacyCACert == ReadFile(fs, IF flags.CA_CERT_PATH = "" THEN LegacyDefaults.CA_CERT_PATH
                                            ELSE flags.CA_CERT_PATH)
           legacyCAKey == ReadFile(fs, IF flags.CA_KEY_PATH = "" THEN LegacyDefaults.CA_KEY_PATH
                                           ELSE flags.CA_KEY_PATH)
           keyblock == pemDecode(legacyCAKey.data)
           keydecoder == KeyDecoder(keyblock.Type)
           parsed == ParsePrivateKey(keydecoder, keyblock.Bytes)
       IN  IF legacyCACert.err
           THEN Fatal("Failed to read CA certificate") /\ UNCHANGED mainloc
           ELSE IF legacyCAKey.err
           THEN Fatal("Failed to read CA private key") /\ UNCHANGED mainloc
           ELSE IF ~keyblock.found
           THEN Fatal("Failed to decode PEM private key") /\ UNCHANGED mainloc
           ELSE IF keydecoder = NoDecoder
           THEN Fatal("Unsupported private key type") /\ UNCHANGED mainloc
           ELSE IF parsed.err
           THEN Fatal("Failed to parse CA private key") /\ UNCHANGED mainloc
           ELSE /\ MainGoto("GenerateKey")
                /\ mainloc' = [mainloc EXCEPT !.caCertPEM = legacyCACert.data,
                                              !.caKeyPEM = legacyCAKey.data,
                                              !.decoder = keydecoder,
                                              !.caPrivateKey = parsed.key]

\* mutant: a failure of generateServerCert is logged and main goes on
BootFailLogged(msg) == MainGoto("NewServer")

\* generateServerCert returns an error: main calls log.Fatalf
BootFail(msg) == Fatal(msg)

\* cert, err := generateServerCert(...): priv, err := ecdsa.GenerateKey(...)
BootGenerateKey ==
    /\ mainpc = "GenerateKey"
    /\ \E ok \in BOOLEAN :
          IF ok
          THEN /\ MainGoto("BootSerial")
               /\ mainloc' = [mainloc EXCEPT !.priv = ServerKey, !.bootstraps = @ + 1]
          ELSE /\ BootFail("Failed to generate TLS certificate: failed to generate private key")
               /\ mainloc' = [mainloc EXCEPT !.bootstraps = @ + 1]

\* serialNumber, err := generateSerialNumber()
BootSerial ==
    /\ mainpc = "BootSerial"
    /\ \E r \in generateSerialNumber :
          IF ~r.err
          THEN /\ MainGoto("ParseIPs")
               /\ mainloc' = [mainloc EXCEPT !.serialNumber = r.n]
          ELSE /\ BootFail("Failed to generate TLS certificate: failed to generate serial number")
               /\ UNCHANGED mainloc

\* ipAddresses := ...; NotBefore: time.Now(); NotAfter: time.Now().Add(...)
BootParseIPs ==
    /\ mainpc = "ParseIPs"
    /\ MainGoto("BootParseCA")
    /\ mainloc' = [mainloc EXCEPT !.ipAddresses = parseServerIPs(mainloc.serverIPs),
                                  !.NotBefore = now,
                                  !.NotAfter = now + Validity]

\* template := &x509.Certificate{...} of generateServerCert
bootTemplate ==
    [SerialNumber |-> mainloc.serialNumber,
     Subject |-> Name("", ""),
     NotBefore |-> mainloc.NotBefore,
     NotAfter |-> mainloc.NotAfter,
     KeyUsage |-> {KeyUsageDigitalSignature, KeyUsageKeyEncipherment},
     ExtKeyUsage |-> <<ExtKeyUsageServerAuth>>,
     BasicConstraintsValid |-> FALSE,
     IsCA |-> FALSE,
     DNSNames |-> ServerDNSNames,
     IPAddresses |-> mainloc.ipAddresses]

\* caBlock, _ := pem.Decode(caCertPEM); caCert, err := x509.ParseCertificate(caBlock.Bytes)
BootParseCA ==
    /\ mainpc = "BootParseCA"
    /\ IF ~pemDecode(mainloc.caCertPEM).found
       THEN BootFail("Failed to generate TLS certificate: failed to decode CA certificate")
       ELSE IF ~ParseCertificateOK(pemDecode(mainloc.caCertPEM).Bytes)
       THEN BootFail("Failed to generate TLS certificate: failed to parse CA certificate")
       ELSE MainGoto("BootSign")
    /\ UNCHANGED mainloc

\* certDER, err := x509.CreateCertificate(rand.Reader, template, caCert, &priv.PublicKey, caPrivateKey)
BootSign ==
    /\ mainpc = "BootSign"
    /\ IF CreateCertificateOK(pemDecode(mainloc.caCertPEM).Bytes, mainloc.caPrivateKey)
       THEN /\ MainGoto("BootKeyPair")
            /\ mainloc' = [mainloc EXCEPT !.certDER =
                              CreateCertificate(bootTemplate, pemDecode(mainloc.caCertPEM).Bytes,
                                                mainloc.priv, mainloc.caPrivateKey)]
       ELSE /\ BootFail("Failed to generate TLS certificate: failed to create certificate")
            /\ UNCHANGED mainloc

\* certChainPEM := append(certPEM, caCertPEM...)
certChainPEM == pemEncodeToMemory(CertType, mainloc.certDER) \o mainloc.caCertPEM
\* keyPEM := pem.EncodeToMemory(&pem.Block{Type: "EC PRIVATE KEY", Bytes: keyBytes})
keyPEM == pemEncodeToMemory("EC PRIVATE KEY", KeyDER("ec", mainloc.priv))

\* cert, err := tls.X509KeyPair(certChainPEM, keyPEM); return cert, nil
BootKeyPair ==
    /\ mainpc = "BootKeyPair"
    /\ IF X509KeyPairOK(certChainPEM, keyPEM)
       THEN /\ MainGoto("NewServer")
            /\ mainloc' = [mainloc EXCEPT !.cert =
                              TLSCertificate(certChainPEM, mainloc.priv)]
       ELSE /\ BootFail("Failed to generate TLS certificate: failed to load key pair")
            /\ UNCHANGED mainloc

\* s := &server{caCert: caCertPEM, caPrivateKey: caPrivateKey, validToken: token}
LegacyNewServer ==
    /\ mainpc = "NewServer"
    /\ mainpc' = "Listen"
    /\ CACert' = mainloc.caCertPEM
    /\ CAPrivateKey' = mainloc.caPrivateKey
    /\ ValidToken' = flags.TALOS_TOKEN
    /\ configured' = [CACert |-> mainloc.caCertPEM, CAPrivateKey |-> mainloc.caPrivateKey,
                      ValidToken |-> flags.TALOS_TOKEN]
    /\ UNCHANGED <<flags, fs, mainloc, exitErr, listening, handler>>

\* lis, err := net.Listen("tcp", ":"+port); grpcServer.Serve(lis)
LegacyListen ==
    /\ mainpc = "Listen"
    /\ \E bound \in BOOLEAN :
          IF bound
          THEN /\ mainpc' = "Serve"
               /\ listening' = TRUE
               /\ UNCHANGED <<exitErr, flags, fs, CACert, CAPrivateKey, ValidToken, configured, handler>>
          ELSE Fatal("Failed to listen on port")
    /\ UNCHANGED mainloc

NextLegacy ==
    \/ LegacyGetenv
    \/ LegacyLoadCA
    \/ BootGenerateKey
    \/ BootSerial
    \/ BootParseIPs
    \/ BootParseCA
    \/ BootSign
    \/ BootKeyPair
    \/ LegacyNewServer
    \/ LegacyListen
    \/ \E c \in SerialCallers :
          /\ mainpc = "Serve"
          /\ Receive(c, MD(<<ValidToken>>, <<>>), <<PEMBlock(CSRType, PlainCSR)>>)
    \/ \E c \in SerialCallers : Certificate(c)
    \/ \E c \in SerialCallers : Return(c)

SpecLegacy == InitLegacy /\ [][NextLegacy]_vars

(***************************************************************************)
(* The transport invoking Certificate for several callers at once.         *)
(***************************************************************************)
\* servers whose CA certificate file is a certificate or is empty
InitConcurrent ==
    /\ Init
    /\ CACert \in { <<PEMBlock(CertType, CACertDER)>>, <<>> }
    /\ CAPrivateKey = CAKey
    /\ ValidToken = <<"a", "b">>

\* requests sent at once: the token or a case variant of it, with a CSR,
\* the same CSR under another Organization, another CSR, or a CSR altered
\* after signing
ConcurrentRequests(valid) ==
    {MD(<<valid>>, <<>>), MD(<<<<SwapCase(valid[1])>> \o Tail(valid)>>, <<>>)}
    \X { <<PEMBlock(CSRType, ApidCSR)>>,
         <<PEMBlock(CSRType, AdminCSR)>>,
         <<PEMBlock(CSRType, PlainCSR)>>,
         <<PEMBlock(CSRType, TamperedCSR)>> }

NextConcurrent ==
    \/ \E c \in Callers :
          \E r \in ConcurrentRequests(ValidToken) : Receive(c, r[1], r[2])
    \/ \E c \in Callers : Certificate(c)
    \/ \E c \in Callers : Return(c)
    \/ Tick

SpecConcurrent == InitConcurrent /\ [][NextConcurrent]_vars

(***************************************************************************)
(* Vocabulary of the properties.                                           *)
(***************************************************************************)
Active(c) == pc[c] # "idle"
Done(c) == pc[c] = "done"
Executed(c, s) == \E i \in 1..Len(steps[c]) : steps[c][i] = s
LastStep(c) == steps[c][Len(steps[c])]
Failed(c) == Done(c) /\ ~result[c].err.nil
Succeeded(c) == Done(c) /\ result[c].err.nil

\* the request carries at least one value under metadata key "token"
HasToken(c) == req[c].md.ok /\ Len(req[c].md.token) > 0
\* the first value presented under key "token"
Presented(c) == req[c].md.token[1]
\* the request presents exactly the configured token
TokenOK(c) == HasToken(c) /\ Presented(c) = configured.ValidToken

\* the request body holds a PEM block whose payload is a CSR
HasCSR(c) == pemDecode(req[c].csr).found /\ pemDecode(req[c].csr).Bytes.kind = "csr"
TheCSR(c) == pemDecode(req[c].csr).Bytes
\* the CSR's signature was made by its own key over its present content
SelfSigned(c) ==
    /\ TheCSR(c).SigKey = TheCSR(c).PublicKey
    /\ TheCSR(c).Signed.DNSNames = TheCSR(c).DNSNames
    /\ TheCSR(c).Signed.IPAddresses = TheCSR(c).IPAddresses
    /\ TheCSR(c).Signed.Subject = TheCSR(c).Subject
    /\ TheCSR(c).Signed.PublicKey = TheCSR(c).PublicKey
    /\ TheCSR(c).Signed.Extensions = TheCSR(c).Extensions
CSRSteps == {"decode", "parse", "checksig"}
IssueSteps == {"cadecode", "caparse", "serial", "notbefore", "notafter", "sign", "respond"}

\* the certificate in a successful response
IssuedCert(c) == pemDecode(result[c].resp.Crt).Bytes

\* C1: a request whose presented token differs from the configured one never
\* has a CSR decoding, parsing or signature step executed, whatever its CSR
\* bytes, and ends as Unauthenticated; in every invocation the token
\* comparison has been executed before any CSR step is.
C1_AuthenticationPrecedence ==
    \A c \in Callers :
        /\ (\E s \in CSRSteps : Executed(c, s)) => Executed(c, "compare")
        /\ (Active(c) /\ HasToken(c) /\ Presented(c) # configured.ValidToken) =>
              /\ \A s \in CSRSteps : ~Executed(c, s)
              /\ Done(c) => (Failed(c) /\ result[c].err.code = "Unauthenticated")

\* C1 witness: a request with a wrong token and a body that is not PEM at all
\* has been answered Unauthenticated.
C1_Witness ==
    \E c \in Callers :
        /\ Done(c) /\ HasToken(c) /\ Presented(c) # configured.ValidToken
        /\ req[c].csr = <<Junk>>
        /\ result[c].err.code = "Unauthenticated"

\* C2: once the token comparison has run, the invocation goes on exactly when
\* the first value under "token" equals the configured token; any other value
\* is answered Unauthenticated "invalid token"; a response is only ever
\* returned to a request whose first token value is the configured token.
C2_ExactTokenMatch ==
    \A c \in Callers :
        /\ (Active(c) /\ HasToken(c) /\ Executed(c, "compare")) =>
              IF Presented(c) = configured.ValidToken
              THEN result[c].err.code # "Unauthenticated"
              ELSE /\ Done(c)
                   /\ result[c].err = [nil |-> FALSE, code |-> "Unauthenticated",
                                       msg |-> "invalid token"]
        /\ ~result[c].resp.nil => TokenOK(c)

\* C2 witness: a case variant of the configured token has been rejected as
\* an invalid token.
C2_Witness ==
    \E c \in Callers :
        /\ Done(c) /\ HasToken(c)
        /\ Presented(c) \in CaseVariants(configured.ValidToken)
        /\ result[c].err.msg = "invalid token"

\* C3 as stated: a request without metadata and a request without a token
\* field both fail as Unauthenticated "missing token".
C3_SameMessage ==
    \A c \in Callers :
        (Done(c) /\ ~HasToken(c)) =>
            result[c].err = [nil |-> FALSE, code |-> "Unauthenticated",
                             msg |-> "missing token"]

\* C3 amended: both fail as Unauthenticated, a request without metadata with
\* message "missing metadata", a request whose metadata has no token field
\* with message "missing token".
C3_MissingToken ==
    \A c \in Callers :
        (Done(c) /\ ~HasToken(c)) =>
            /\ result[c].resp.nil
            /\ result[c].err =
                  [nil |-> FALSE, code |-> "Unauthenticated",
                   msg |-> IF req[c].md.ok THEN "missing token" ELSE "missing metadata"]

\* C3 witness: a request whose metadata carries the valid token under another
\* key, and nothing under "token", has been answered "missing token".
C3_Witness ==
    \E c \in Callers :
        /\ Done(c) /\ req[c].md.ok /\ req[c].md.token = <<>>
        /\ req[c].md.authorization = <<configured.ValidToken>>
        /\ result[c].err.msg = "missing token"

\* C4: a request whose CSR parses but is not correctly self-signed never has
\* serial generation or signing executed and never gets a response; it ends
\* as InvalidArgument "invalid CSR signature" when its token is the configured
\* one and as Unauthenticated when it is not.
C4_NoIssueWithoutSelfSignature ==
    \A c \in Callers :
        (Active(c) /\ HasCSR(c) /\ ~SelfSigned(c)) =>
            /\ ~Executed(c, "serial") /\ ~Executed(c, "sign") /\ ~Executed(c, "respond")
            /\ result[c].resp.nil
            /\ Done(c) =>
                  IF TokenOK(c)
                  THEN result[c].err = [nil |-> FALSE, code |-> "InvalidArgument",
                                        msg |-> "invalid CSR signature"]
                  ELSE Failed(c) /\ result[c].err.code = "Unauthenticated"

\* C4 witness: a CSR altered after signing, sent with the valid token, has
\* been rejected for its signature.
C4_Witness ==
    \E c \in Callers :
        /\ Done(c) /\ TokenOK(c) /\ HasCSR(c)
        /\ TheCSR(c).SigKey = TheCSR(c).PublicKey
        /\ TheCSR(c).Signed.DNSNames # TheCSR(c).DNSNames
        /\ result[c].err.msg = "invalid CSR signature"

\* the order in which the handler is to validate and issue
ClaimedOrder ==
    << "metadata", "token", "compare", "decode", "parse", "checksig",
       "cadecode", "caparse", "serial", "notbefore", "notafter", "sign", "respond" >>

IsPrefix(p, q) == Len(p) <= Len(q) /\ \A i \in 1..Len(p) : p[i] = q[i]

\* the configured CA certificate decodes and parses
CAUsable ==
    /\ pemDecode(configured.CACert).found
    /\ pemDecode(configured.CACert).Bytes.kind = "cert"

\* the earliest check the request fails, in the claimed order, among the
\* checks its metadata, its CSR and the configuration decide
EarliestFailure(c) ==
    CASE ~req[c].md.ok -> "metadata"
      [] req[c].md.ok /\ ~HasToken(c) -> "token"
      [] HasToken(c) /\ ~TokenOK(c) -> "compare"
      [] TokenOK(c) /\ ~pemDecode(req[c].csr).found -> "decode"
      [] TokenOK(c) /\ pemDecode(req[c].csr).found /\ ~HasCSR(c) -> "parse"
      [] TokenOK(c) /\ HasCSR(c) /\ ~SelfSigned(c) -> "checksig"
      [] TokenOK(c) /\ HasCSR(c) /\ SelfSigned(c)
            /\ ~pemDecode(configured.CACert).found -> "cadecode"
      [] TokenOK(c) /\ HasCSR(c) /\ SelfSigned(c)
            /\ pemDecode(configured.CACert).found /\ ~CAUsable -> "caparse"
      [] OTHER -> "none"

\* the error each failing step is to return
ClaimedError(s) ==
    CASE s = "metadata" -> [code |-> "Unauthenticated", msg |-> "missing metadata"]
      [] s = "token" -> [code |-> "Unauthenticated", msg |-> "missing token"]
      [] s = "compare" -> [code |-> "Unauthenticated", msg |-> "invalid token"]
      [] s = "decode" -> [code |-> "InvalidArgument", msg |-> "failed to decode PEM CSR"]
      [] s = "parse" -> [code |-> "InvalidArgument", msg |-> "failed to parse CSR"]
      [] s = "checksig" -> [code |-> "InvalidArgument", msg |-> "invalid CSR signature"]
      [] s = "cadecode" -> [code |-> "Internal", msg |-> "failed to decode CA certificate"]
      [] s = "caparse" -> [code |-> "Internal", msg |-> "failed to parse CA cert"]
      [] s = "serial" -> [code |-> "Internal", msg |-> "failed to generate serial"]
      [] s = "sign" -> [code |-> "Internal", msg |-> "failed to create certificate"]

\* C5: the steps an invocation has executed are always an initial part of
\* authenticate, decode, parse, verify signature, issue, in that order; a
\* failed invocation stopped at the earliest check its request fails, returned
\* that check's error, and executed no step after it.
C5_ValidationOrder ==
    \A c \in Callers :
        /\ IsPrefix(steps[c], ClaimedOrder)
        /\ Failed(c) =>
              /\ LastStep(c) \in {"metadata", "token", "compare", "decode", "parse",
                                  "checksig", "cadecode", "caparse", "serial", "sign"}
              /\ result[c].err.code = ClaimedError(LastStep(c)).code
              /\ result[c].err.msg = ClaimedError(LastStep(c)).msg
              /\ EarliestFailure(c) # "none" => LastStep(c) = EarliestFailure(c)
              /\ EarliestFailure(c) = "none" => LastStep(c) \in {"serial", "sign"}
        /\ (Done(c) /\ EarliestFailure(c) \notin {"none", "cadecode", "caparse"}) =>
              /\ Failed(c)
              /\ \A s \in IssueSteps : ~Executed(c, s)

\* C5 witness: a request without metadata, with a body that is not PEM, served
\* by a server whose CA certificate does not decode, fails three checks at
\* once and has been answered with the first one's error.
C5_Witness ==
    \E c \in Callers :
        /\ Done(c) /\ ~req[c].md.ok /\ ~pemDecode(req[c].csr).found
        /\ ~pemDecode(configured.CACert).found
        /\ result[c].err.msg = "missing metadata"
        /\ steps[c] = <<"metadata">>

\* C6: a failed request is reported in exactly one of three classes, given by
\* the step that failed: Unauthenticated for the metadata, token and
\* comparison steps, InvalidArgument for the CSR decode, parse and signature
\* steps, Internal for the CA decode, CA parse, serial and signing steps; a
\* request that fails authentication is never reported InvalidArgument and an
\* authenticated request with a bad CSR is never reported Unauthenticated.
C6_ErrorClasses ==
    \A c \in Callers :
        Failed(c) =>
            /\ result[c].err.code \in {"Unauthenticated", "InvalidArgument", "Internal"}
            /\ LastStep(c) \in {"metadata", "token", "compare"}
                  <=> result[c].err.code = "Unauthenticated"
            /\ LastStep(c) \in {"decode", "parse", "checksig"}
                  <=> result[c].err.code = "InvalidArgument"
            /\ LastStep(c) \in {"cadecode", "caparse", "serial", "sign"}
                  <=> result[c].err.code = "Internal"
            /\ ~TokenOK(c) => result[c].err.code = "Unauthenticated"
            /\ (TokenOK(c) /\ ~(HasCSR(c) /\ SelfSigned(c)))
                  => result[c].err.code = "InvalidArgument"
            /\ (TokenOK(c) /\ HasCSR(c) /\ SelfSigned(c))
                  => result[c].err.code = "Internal"

\* C6 witness: an authenticated request with a valid CSR has failed Internal
\* because the CA certificate bytes hold a block that is no certificate.
C6_Witness ==
    \E c \in Callers :
        /\ Failed(c) /\ TokenOK(c) /\ HasCSR(c) /\ SelfSigned(c)
        /\ pemDecode(configured.CACert).found /\ ~CAUsable
        /\ result[c].err.code = "Internal"
        /\ LastStep(c) = "caparse"

\* C7: what Certificate returns is either a response with a non-empty CA
\* certificate and a non-empty leaf certificate and no error, or no response
\* and an error; until it returns there is neither.
C7_NoPartialResponse ==
    \A c \in Callers :
        /\ Done(c) =>
              \/ /\ ~result[c].resp.nil /\ result[c].err.nil
                 /\ result[c].resp.Ca # <<>> /\ result[c].resp.Crt # <<>>
                 /\ pemDecode(result[c].resp.Ca).found
                 /\ pemDecode(result[c].resp.Crt).found
              \/ /\ result[c].resp.nil /\ ~result[c].err.nil
        /\ ~Done(c) => result[c].resp.nil /\ result[c].err.nil

\* C7 witness: a signing failure, the last step that can fail, has returned
\* an error and no response.
C7_Witness ==
    \E c \in Callers :
        /\ Done(c) /\ LastStep(c) = "sign"
        /\ result[c].resp.nil /\ ~result[c].err.nil

\* C8: the ca field of every successful response is the CA certificate bytes
\* the server was constructed with, whatever the request, and the server
\* still holds exactly those bytes.
C8_CAUnchanged ==
    /\ CACert = configured.CACert
    /\ \A c \in Callers :
          Succeeded(c) => /\ ~result[c].resp.nil
                          /\ result[c].resp.Ca = configured.CACert

\* C8 witness: a server whose CA file holds more than the certificate block
\* has answered a request successfully.
C8_Witness ==
    \E c \in Callers :
        /\ Succeeded(c)
        /\ Len(configured.CACert) > 1
        /\ result[c].resp.Ca = configured.CACert

\* C9: a request with the configured token and a well-formed, correctly
\* self-signed CSR either fails Internal or is answered with a PEM
\* certificate that binds the CSR's public key, is issued by the subject of
\* the configured CA certificate, carries exactly the CSR's DNS and IP SAN
\* lists, and is signed with the configured CA private key, which is the key
\* of the CA certificate.
C9_RoundTrip ==
    \A c \in Callers :
        (Done(c) /\ TokenOK(c) /\ HasCSR(c) /\ SelfSigned(c)) =>
            IF Failed(c)
            THEN result[c].err.code = "Internal"
            ELSE /\ pemDecode(result[c].resp.Crt).found
                 /\ pemDecode(result[c].resp.Crt).Type = "CERTIFICATE"
                 /\ IssuedCert(c).kind = "cert"
                 /\ IssuedCert(c).PublicKey = TheCSR(c).PublicKey
                 /\ CAUsable
                 /\ IssuedCert(c).Issuer = pemDecode(configured.CACert).Bytes.Subject
                 /\ IssuedCert(c).DNSNames = TheCSR(c).DNSNames
                 /\ IssuedCert(c).IPAddresses = TheCSR(c).IPAddresses
                 /\ IssuedCert(c).SignedBy = configured.CAPrivateKey
                 /\ IssuedCert(c).SignedBy = pemDecode(configured.CACert).Bytes.PublicKey

\* C9 witness: the CSR for CN=apid, apid.local, 10.0.0.5 has been answered
\* with a certificate carrying these names.
C9_Witness ==
    \E c \in Callers :
        /\ Succeeded(c) /\ TokenOK(c)
        /\ TheCSR(c).Subject.CommonName = "apid"
        /\ IssuedCert(c).DNSNames = <<"apid.local">>
        /\ IssuedCert(c).IPAddresses = <<"10.0.0.5">>
        /\ IssuedCert(c).Issuer.CommonName = "talos-ca"

\* C10: every issued certificate has NotAfter - NotBefore equal to 365 days
\* of 24 hours, however the clock advances while the request is handled.
C10_ExactValidity ==
    \A c \in Callers :
        Succeeded(c) =>
            IssuedCert(c).NotAfter - IssuedCert(c).NotBefore = 365 * 24 * 3600

\* C11: every issued certificate has key usage exactly digital signature and
\* key encipherment, extended key usage exactly server authentication,
\* BasicConstraintsValid true and IsCA false, whatever the CSR requests.
C11_FixedUsage ==
    \A c \in Callers :
        Succeeded(c) =>
            /\ IssuedCert(c).KeyUsage = {"digitalSignature", "keyEncipherment"}
            /\ IssuedCert(c).ExtKeyUsage = <<"serverAuth">>
            /\ IssuedCert(c).BasicConstraintsValid = TRUE
            /\ IssuedCert(c).IsCA = FALSE

\* C11 witness: a correctly signed CSR that requests CA capability and
\* certificate signing has been answered with a certificate.
C11_Witness ==
    \E c \in Callers :
        /\ Succeeded(c)
        /\ "CA:TRUE" \in TheCSR(c).Extensions
        /\ "keyCertSign" \in TheCSR(c).Extensions
        /\ IssuedCert(c).kind = "cert"

\* C13: an authenticated request whose body is empty, is not PEM, or is a PEM
\* block of a type other than a certificate request ends as InvalidArgument
\* and is never answered with a certificate.
C13_MalformedInput ==
    \A c \in Callers :
        (Done(c) /\ TokenOK(c)
           /\ (~pemDecode(req[c].csr).found
                  \/ pemDecode(req[c].csr).Type # "CERTIFICATE REQUEST")) =>
            /\ result[c].resp.nil
            /\ result[c].err.code = "InvalidArgument"

\* C12 as stated: any two successful calls made with the same valid token and
\* the same CSR return certificates with different serial numbers.
C12_DistinctSerials ==
    \A c, d \in Callers :
        (c # d /\ Succeeded(c) /\ Succeeded(d) /\ req[c] = req[d]) =>
            IssuedCert(c).SerialNumber # IssuedCert(d).SerialNumber

\* C12 amended: no response is cached or replayed.  Every successful call has
\* itself executed every step from authentication to signing, and its
\* certificate carries the serial number its own invocation drew from the
\* random source; calls with the same valid token and the same CSR each
\* succeed that way.  Serial numbers are independent draws: nothing makes two
\* of them differ.
C12_IndependentSuccess ==
    \A c \in Callers :
        Succeeded(c) =>
            /\ steps[c] = ClaimedOrder
            /\ IssuedCert(c).SerialNumber = loc[c].serialNumber
            /\ IssuedCert(c).SerialNumber \in RandomSerials

\* C12 witness: two calls with the same valid token and the same CSR have both
\* succeeded, with different serial numbers.
C12_Witness ==
    \E c, d \in Callers :
        /\ c # d /\ Succeeded(c) /\ Succeeded(d) /\ req[c] = req[d]
        /\ IssuedCert(c).SerialNumber # IssuedCert(d).SerialNumber

\* the declared type of the first PEM block of the CA key file
KeyFileType == pemDecode(fs[DefaultFlags.caKeyPath].data).Type
\* the bytes of that block
KeyFileDER == pemDecode(fs[DefaultFlags.caKeyPath].data).Bytes
\* the block types main has a decoder for
SupportedKeyTypes ==
    {"ED25519 PRIVATE KEY", "PRIVATE KEY", "EC PRIVATE KEY", "RSA PRIVATE KEY"}
\* main has got past loading the CA key
KeyLoaded == mainpc \in {"LoadKeyPair", "NewServer", "Listen", "Serve"}
\* main has reached the statement that picks the decoder
ReachesKeyParsing ==
    /\ flags.port >= 1 /\ flags.port <= MaxPort /\ flags.token # <<>>
    /\ flags.caCertPath # "" /\ flags.caKeyPath # ""
    /\ flags.tlsCertPath # "" /\ flags.tlsKeyPath # ""
    /\ fs[DefaultFlags.caCertPath].exists /\ fs[DefaultFlags.caKeyPath].exists
    /\ pemDecode(fs[DefaultFlags.caKeyPath].data).found

\* C14: the decoder main calls on the CA key is the one of the key block's
\* declared type: PKCS#8 for ED25519 PRIVATE KEY and PRIVATE KEY, EC for EC
\* PRIVATE KEY, PKCS#1 for RSA PRIVATE KEY.  With any other declared type no
\* decoder is called, main returns ErrUnsupportedBlockType annotated with
\* that type string, and the port is never bound.
C14_DecoderByBlockType ==
    /\ mainloc.decoder # NoDecoder =>
          /\ KeyFileType \in {"ED25519 PRIVATE KEY", "PRIVATE KEY"}
                => mainloc.decoder = "x509.ParsePKCS8PrivateKey"
          /\ KeyFileType = "EC PRIVATE KEY" => mainloc.decoder = "x509.ParseECPrivateKey"
          /\ KeyFileType = "RSA PRIVATE KEY" => mainloc.decoder = "x509.ParsePKCS1PrivateKey"
          /\ KeyFileType \in SupportedKeyTypes
    /\ KeyLoaded => mainloc.decoder # NoDecoder
    /\ (ReachesKeyParsing /\ KeyFileType \notin SupportedKeyTypes) =>
          /\ ~KeyLoaded /\ ~listening
          /\ mainloc.decoder = NoDecoder
          /\ mainpc = "exited" =>
                exitErr = [nil |-> FALSE, is |-> "unsupported block type",
                           msg |-> KeyFileType]

\* C14 witness: a key file whose block is declared DSA PRIVATE KEY, and whose
\* bytes the PKCS#8 decoder would accept, has stopped main with the
\* unsupported-block-type error naming DSA PRIVATE KEY.
C14_Witness ==
    /\ mainpc = "exited"
    /\ exitErr.is = "unsupported block type"
    /\ exitErr.msg = "DSA PRIVATE KEY"
    /\ KeyFileDER = [kind |-> "key", format |-> "pkcs8", key |-> CAKey]
    /\ ~listening

\* C15: when the configured CA certificate bytes do not decode to a PEM block
\* that parses as an X.509 certificate, or the CA key does not parse, the
\* port is never bound and no request is ever served.
C15_ParseFailureFatal ==
    (listening \/ \E c \in Callers : Active(c)) =>
        /\ pemDecode(fs[DefaultFlags.caCertPath].data).found
        /\ pemDecode(fs[DefaultFlags.caCertPath].data).Bytes.kind = "cert"
        /\ pemDecode(fs[DefaultFlags.caKeyPath].data).found
        /\ KeyFileDER.kind = "key"

\* C16: the CA certificate and the CA private key of a server that listens
\* belong to one key pair, and no request fails at signing.
C16_KeyPairChecked ==
    /\ (listening /\ CAUsable) =>
          pemDecode(configured.CACert).Bytes.PublicKey = configured.CAPrivateKey
    /\ \A c \in Callers :
          ~(Failed(c) /\ result[c].err.msg = "failed to create certificate")

\* the flags pass PreRunE
FlagsOK ==
    /\ flags.port >= 1 /\ flags.port <= MaxPort
    /\ flags.token # <<>>
    /\ flags.caCertPath # "" /\ flags.caKeyPath # ""
    /\ flags.tlsCertPath # "" /\ flags.tlsKeyPath # ""
\* both CA files can be read
CAFilesRead == fs[DefaultFlags.caCertPath].exists /\ fs[DefaultFlags.caKeyPath].exists
\* the CA key file holds a PEM block
KeyDecodes == pemDecode(fs[DefaultFlags.caKeyPath].data).found
\* the block's bytes are a key in the encoding the block's type announces
KeyParses ==
    /\ KeyFileDER.kind = "key"
    /\ \/ KeyFileType \in {"ED25519 PRIVATE KEY", "PRIVATE KEY"} /\ KeyFileDER.format = "pkcs8"
       \/ KeyFileType = "EC PRIVATE KEY" /\ KeyFileDER.format = "ec"
       \/ KeyFileType = "RSA PRIVATE KEY" /\ KeyFileDER.format = "pkcs1"
\* the server's TLS certificate and key files exist and pair
TLSPairLoads ==
    /\ fs[DefaultFlags.tlsCertPath].exists /\ fs[DefaultFlags.tlsKeyPath].exists
    /\ pemDecode(fs[DefaultFlags.tlsCertPath].data).Bytes.kind = "cert"
    /\ pemDecode(fs[DefaultFlags.tlsKeyPath].data).Bytes.kind = "key"
    /\ pemDecode(fs[DefaultFlags.tlsKeyPath].data).Bytes.key = pemDecode(fs[DefaultFlags.tlsCertPath].data).Bytes.PublicKey

\* the named error of the first condition that fails, in the order main
\* checks them; a key block of a type main has no decoder for is C14's case
NamedError ==
    IF flags.port <= 0 THEN "missing gRPC server port"
    ELSE IF flags.port > MaxPort THEN "gRPC server port is out of range"
    ELSE IF flags.token = <<>> THEN "missing Talos token"
    ELSE IF ~FlagsOK THEN "path is required"
    ELSE IF ~CAFilesRead THEN "failed to read file"
    ELSE IF ~KeyDecodes THEN "failed to decode PEM"
    ELSE IF KeyFileType \notin SupportedKeyTypes THEN "unsupported block type"
    ELSE IF ~KeyParses THEN "failed to parse private key"
    ELSE IF ~TLSPairLoads THEN "failed to load certificate"
    ELSE "failed to listen on given port"

\* C17: the port is bound and requests are served only if the port flag is in
\* 1..65535, the token is not empty, the four paths are not empty, both CA
\* files were read, the CA key decoded and parsed and the TLS key pair
\* loaded; when one of these fails main returns the named error of the first
\* one that fails, without the port ever being bound or a request served.
C17_ConfigErrorsFatal ==
    /\ (listening \/ mainpc \in {"Listen", "Serve"} \/ \E c \in Callers : Active(c)) =>
          /\ FlagsOK /\ CAFilesRead /\ KeyDecodes /\ KeyParses /\ TLSPairLoads
    /\ mainpc = "exited" =>
          /\ ~exitErr.nil
          /\ exitErr.is = NamedError
          /\ ~listening
          /\ \A c \in Callers : ~Active(c) /\ steps[c] = <<>>
    /\ mainpc # "exited" => exitErr.nil

\* C17 witness: flags, CA files and CA key are in order and the TLS key file
\* holds the key of another certificate: main has returned
\* ErrLoadingCertificate and the port is not bound.
C17_Witness ==
    /\ mainpc = "exited"
    /\ exitErr.is = "failed to load certificate"
    /\ FlagsOK /\ CAFilesRead /\ KeyDecodes /\ KeyParses
    /\ ~listening

\* the configured server IP strings
ConfiguredEntries ==
    IF flags.SERVER_IPS = <<>> THEN <<>> ELSE stringsSplit(flags.SERVER_IPS)
\* the positions of the entries that are IP literals
ParseableEntries ==
    {i \in 1..Len(ConfiguredEntries) :
        Len(ConfiguredEntries[i]) = 1 /\ ConfiguredEntries[i][1] \in IPLiterals}
\* generateServerCert has signed the server certificate
BootCertSigned == mainloc.certDER.kind = "cert"

\* C18: the generated server certificate's IP SAN list is 127.0.0.1 followed
\* by the address of every configured entry that is an IP literal, in the
\* configured order; the other entries are left out; the DNS SAN list is the
\* four service names whatever is configured; and no exit of the process is
\* due to an entry.
C18_BootstrapSANs ==
    /\ BootCertSigned =>
          /\ Len(mainloc.certDER.IPAddresses) = 1 + Cardinality(ParseableEntries)
          /\ mainloc.certDER.IPAddresses[1] = "127.0.0.1"
          /\ \A i \in ParseableEntries :
                mainloc.certDER.IPAddresses[1 + Cardinality({j \in ParseableEntries : j <= i})]
                   = IPOf(ConfiguredEntries[i][1])
          /\ mainloc.certDER.DNSNames =
                << "talos-csr-signer", "talos-csr-signer.default",
                   "talos-csr-signer.default.svc",
                   "talos-csr-signer.default.svc.cluster.local" >>
    /\ mainpc = "exited" =>
          exitErr.msg \in
             { "TALOS_TOKEN environment variable is required",
               "Failed to read CA certificate", "Failed to read CA private key",
               "Failed to decode PEM private key", "Unsupported private key type",
               "Failed to parse CA private key",
               "Failed to generate TLS certificate: failed to generate private key",
               "Failed to generate TLS certificate: failed to generate serial number",
               "Failed to generate TLS certificate: failed to decode CA certificate",
               "Failed to generate TLS certificate: failed to parse CA certificate",
               "Failed to generate TLS certificate: failed to create certificate",
               "Failed to listen on port" }

\* C18 witness: with SERVER_IPS = "10.10.10.101, " (an address, a separator
\* and a blank entry) the server listens with a certificate whose IP SANs
\* are 127.0.0.1 and 10.10.10.101.
C18_Witness ==
    /\ listening
    /\ flags.SERVER_IPS = <<"10.10.10.101", ",", " ">>
    /\ mainloc.certDER.IPAddresses = <<"127.0.0.1", "10.10.10.101">>
    /\ mainloc.certDER.DNSNames[1] = "talos-csr-signer"

\* main is inside generateServerCert
Bootstrapping ==
    mainpc \in {"GenerateKey", "BootSerial", "ParseIPs", "BootParseCA", "BootSign", "BootKeyPair"}

\* C19: generateServerCert is entered at most once, and has been entered and
\* has returned a certificate paired with its private key before the port is
\* bound or a request is handled; while it runs nothing listens; a failure of
\* key generation, serial generation, CA decoding or parsing, signing or
\* pairing ends the process with the port never bound.
C19_BootstrapOnceBeforeListen ==
    /\ mainloc.bootstraps <= 1
    /\ Bootstrapping => (~listening /\ \A c \in Callers : ~Active(c))
    /\ (listening \/ mainpc \in {"NewServer", "Listen", "Serve"}
          \/ \E c \in Callers : Active(c)) =>
          /\ mainloc.bootstraps = 1
          /\ ~mainloc.cert.nil
          /\ mainloc.cert.PrivateKey = "kServer"
          /\ pemDecode(mainloc.cert.Certificate).Bytes.kind = "cert"
          /\ pemDecode(mainloc.cert.Certificate).Bytes.PublicKey = mainloc.cert.PrivateKey
          /\ pemDecode(mainloc.cert.Certificate).Bytes.SignedBy = mainloc.caPrivateKey
          /\ pemDecode(fs[LegacyDefaults.CA_CERT_PATH].data).Bytes.kind = "cert"
          /\ pemDecode(fs[LegacyDefaults.CA_CERT_PATH].data).Bytes.PublicKey = mainloc.caPrivateKey
    /\ mainpc = "exited" => (~listening /\ \A c \in Callers : steps[c] = <<>>)

\* C19 witness: the CA key is not the key of the CA certificate; signing the
\* server certificate failed and the process has exited without listening.
C19_Witness ==
    /\ mainpc = "exited"
    /\ exitErr.msg = "Failed to generate TLS certificate: failed to create certificate"
    /\ mainloc.bootstraps = 1
    /\ ~listening

\* what belongs to caller c's invocation
Slot(c) == <<pc[c], req[c], loc[c], result[c], steps[c]>>
\* the outcome class of a finished invocation
Class(c) == IF result[c].err.nil THEN "OK" ELSE result[c].err.code
\* the outcome classes c's request can get when it is the only request
AloneClasses(c) ==
    IF EarliestFailure(c) # "none"
    THEN {ClaimedError(EarliestFailure(c)).code}
    ELSE {"OK", "Internal"}

\* a finished invocation has an outcome its request gets alone, and a
\* certificate for its own CSR
C20_Outcome(c) ==
    Done(c) =>
        /\ Class(c) \in AloneClasses(c)
        /\ Succeeded(c) =>
              /\ IssuedCert(c).Subject = TheCSR(c).Subject
              /\ IssuedCert(c).DNSNames = TheCSR(c).DNSNames
              /\ IssuedCert(c).IPAddresses = TheCSR(c).IPAddresses
              /\ IssuedCert(c).PublicKey = TheCSR(c).PublicKey
              /\ result[c].resp.Ca = configured.CACert

\* a step changes what belongs to at most one invocation, never the request
\* of an invocation under way, and never the CA certificate, CA key or token
C20_Step ==
    /\ \A c, d \in Callers :
          c # d => (Slot(c)' = Slot(c) \/ Slot(d)' = Slot(d))
    /\ \A c \in Callers : (Active(c) /\ pc'[c] # "idle") => req'[c] = req[c]
    /\ <<CACert, CAPrivateKey, ValidToken>>' = <<CACert, CAPrivateKey, ValidToken>>

\* C20: under every interleaving of the invocations of two callers, each
\* finished invocation has the outcome class, and on success the subject,
\* SANs and public key, that its request gets when it runs alone; no step of
\* one invocation changes the token, CSR, locals or result of another, and
\* the CA certificate, the CA key and the token are never written.
C20_Independent == [](\A c \in Callers : C20_Outcome(c)) /\ [][C20_Step]_vars

\* C20 witness: while a request with a wrong token has been refused, a
\* request with the valid token has been issued a certificate for its CSR,
\* both still outstanding.
C20_Witness ==
    \E c, d \in Callers :
        /\ c # d
        /\ Succeeded(c) /\ IssuedCert(c).Subject = TheCSR(c).Subject
        /\ Failed(d) /\ result[d].err.code = "Unauthenticated"
        /\ TheCSR(d) # TheCSR(c)

(***************************************************************************)
(* What an invocation writes to the process log.  Every line is written by *)
(* a statement of the handler, so the lines written so far are a function  *)
(* of the statements executed and of the values they read.                 *)
(***************************************************************************)
\* the length of the token prefix the handler logs
PrefixLen == 8

\* min(a, b)
min(a, b) == IF a < b THEN a ELSE b

\* token[:min(8, len(token))]
tokenPrefix(t) == SubSeq(t, 1, min(PrefixLen, Len(t)))

\* the log.Printf calls of the authentication steps that c's invocation has made
log(c) ==
    (IF Executed(c, "token") /\ Len(mdGet(req[c].md)) = 0
     THEN <<[line |-> "Available metadata keys: %v", arg |-> req[c].md]>>
     ELSE <<>>)
    \o (IF Executed(c, "token") /\ Len(mdGet(req[c].md)) # 0
        THEN <<[line |-> "Token prefix: %s...", arg |-> tokenPrefix(token(c))]>>
        ELSE <<>>)
    \o (IF Executed(c, "compare") /\ tokenMismatch(token(c), ValidToken)
        THEN <<[line |-> "  Received: %s...", arg |-> tokenPrefix(token(c))],
               [line |-> "  Expected: %s...", arg |-> tokenPrefix(ValidToken)]>>
        ELSE <<>>)

\* the log lines that carry a token value
TokenLines == {"Token prefix: %s...", "  Received: %s...", "  Expected: %s..."}

\* C21: no line the handler logs on the success path or on the mismatch path
\* holds a complete token: what is logged of the presented token and of the
\* configured token is a proper prefix, whatever the token's length.
C21_ProperPrefixOnly ==
    \A c \in Callers : \A i \in 1..Len(log(c)) :
        log(c)[i].line \in TokenLines
            => /\ log(c)[i].arg # token(c)
               /\ log(c)[i].arg # ValidToken

\* a certificate without its serial number and validity timestamps
Policy(cert) == [cert EXCEPT !.SerialNumber = 0, !.NotBefore = 0, !.NotAfter = 0]

\* the CSRs of c and d agree on public key, common name, DNS names and IP addresses
SameFourValues(c, d) ==
    /\ TheCSR(c).PublicKey = TheCSR(d).PublicKey
    /\ TheCSR(c).Subject.CommonName = TheCSR(d).Subject.CommonName
    /\ TheCSR(c).DNSNames = TheCSR(d).DNSNames
    /\ TheCSR(c).IPAddresses = TheCSR(d).IPAddresses

\* C22: of a CSR only the public key, the subject common name, the DNS names
\* and the IP addresses reach the certificate: two issued certificates whose
\* CSRs agree on these four values differ in nothing but serial number and
\* validity timestamps.
C22_OnlyFourValues ==
    \A c, d \in Callers :
        Succeeded(c) /\ Succeeded(d) /\ SameFourValues(c, d)
            => Policy(IssuedCert(c)) = Policy(IssuedCert(d))

\* C23: the CA certificate is decoded and parsed by each invocation, after
\* authentication and CSR validation.  With CA certificate bytes that do not
\* decode or parse, a request with the valid token and a correctly self-signed
\* CSR fails Internal at the CA steps it ran itself, a request with a wrong
\* or missing token still fails Unauthenticated and one with a bad CSR still
\* fails InvalidArgument, neither having touched the CA; with a usable CA,
\* every issued certificate comes from an invocation that ran both CA steps.
C23_CAPerRequestLast ==
    \A c \in Callers :
        /\ (Done(c) /\ ~CAUsable) =>
              /\ Failed(c) /\ result[c].resp = NoResponse
              /\ (TokenOK(c) /\ HasCSR(c) /\ SelfSigned(c)) =>
                    /\ result[c].err.code = "Internal"
                    /\ Executed(c, "checksig") /\ Executed(c, "cadecode")
                    /\ LastStep(c) \in {"cadecode", "caparse"}
              /\ ~TokenOK(c) =>
                    /\ result[c].err.code = "Unauthenticated"
                    /\ ~Executed(c, "cadecode")
              /\ (TokenOK(c) /\ ~(HasCSR(c) /\ SelfSigned(c))) =>
                    /\ result[c].err.code = "InvalidArgument"
                    /\ ~Executed(c, "cadecode")
        /\ Succeeded(c) => Executed(c, "cadecode") /\ Executed(c, "caparse")

\* C23 witness: a request with the valid token and a correctly self-signed CSR
\* has failed Internal at the CA decode step of its own invocation, the CA
\* certificate bytes holding no PEM block.
C23_Witness ==
    \E c \in Callers :
        /\ Failed(c) /\ TokenOK(c) /\ HasCSR(c) /\ SelfSigned(c)
        /\ ~pemDecode(configured.CACert).found
        /\ LastStep(c) = "cadecode" /\ Executed(c, "checksig")
        /\ result[c].err.code = "Internal"

\* the body is exactly one PEM block and nothing else
SinglePEMBlock(data) == Len(data) = 1 /\ data[1] # Junk

\* C24: the CSR body of an authenticated request is accepted only when it is
\* a single PEM block: a body with no PEM block, or with anything besides
\* exactly one PEM block, fails InvalidArgument (malformed PEM) and no
\* certificate is issued.
C24_SinglePEMBlockOnly ==
    \A c \in Callers :
        (Done(c) /\ TokenOK(c) /\ ~SinglePEMBlock(req[c].csr)) =>
            /\ Failed(c)
            /\ result[c].err.code = "InvalidArgument"
            /\ result[c].err.msg = "failed to decode PEM CSR"
            /\ result[c].resp = NoResponse

\* C25: the server certificate made at bootstrap has the policy of a
\* certificate the handler issues: validity of 365 days, key usage
\* digitalSignature and keyEncipherment, extended key usage serverAuth,
\* BasicConstraintsValid set and not a CA, a serial drawn from the random
\* source, and the signature of the configured CA key.
C25_BootstrapSamePolicy ==
    BootCertSigned =>
        /\ mainloc.certDER.NotAfter - mainloc.certDER.NotBefore = Validity
        /\ mainloc.certDER.KeyUsage = {"digitalSignature", "keyEncipherment"}
        /\ mainloc.certDER.ExtKeyUsage = <<"serverAuth">>
        /\ mainloc.certDER.IsCA = FALSE
        /\ mainloc.certDER.SerialNumber \in 0..(MaxSerial - 1)
        /\ mainloc.certDER.SignedBy = mainloc.caPrivateKey
        /\ mainloc.certDER.Issuer = pemDecode(mainloc.caCertPEM).Bytes.Subject
        /\ mainloc.certDER.BasicConstraintsValid = TRUE

\* what belongs to a caller with no invocation under way
IdleSlot == <<"idle", NoRequest, NoLocals, NoResult, <<>>>>

\* between invocations nothing of an earlier request is left, and a finished
\* invocation has an outcome class that its request and the startup
\* configuration allow
C26_Outcome ==
    \A c \in Callers :
        /\ pc[c] = "idle" => Slot(c) = IdleSlot
        /\ Done(c) => Class(c) \in AloneClasses(c)

\* no step writes the CA certificate bytes, the CA key or the token, and the
\* end of an invocation, succeeding or failing, leaves no record of it
C26_Frame ==
    /\ CACert' = CACert
    /\ CAPrivateKey' = CAPrivateKey
    /\ ValidToken' = ValidToken
    /\ configured' = configured
    /\ \A c \in Callers : (Done(c) /\ pc'[c] = "idle") => Slot(c)' = IdleSlot

\* C26: the handler is stateless.  No step of an invocation, whether it
\* succeeds or fails, changes the CA certificate bytes, the CA key or the
\* token; nothing of a finished request (no certificate, no serial) is kept,
\* so a request always meets the server as it was constructed and its outcome
\* class is decided by its metadata, its CSR and the configuration alone.
C26_Stateless == []C26_Outcome /\ [][C26_Frame]_vars

\* C26 witness: an invocation that drew a serial and issued a certificate is
\* about to end, the server holding what it was constructed with.
C26_Witness ==
    \E c \in Callers :
        /\ Succeeded(c) /\ Executed(c, "serial")
        /\ loc[c] # NoLocals
        /\ <<CACert, CAPrivateKey, ValidToken>>
              = <<configured.CACert, configured.CAPrivateKey, configured.ValidToken>>

\* the error the metadata of a request that fails authentication determines
AuthFailure(md) ==
    CASE ~md.ok -> [nil |-> FALSE, code |-> "Unauthenticated", msg |-> "missing metadata"]
      [] md.ok /\ Len(md.token) = 0 ->
            [nil |-> FALSE, code |-> "Unauthenticated", msg |-> "missing token"]
      [] OTHER -> [nil |-> FALSE, code |-> "Unauthenticated", msg |-> "invalid token"]

\* C27: a caller that fails authentication learns nothing about the CSR or
\* the CA.  What a request without metadata, without a token or with a
\* non-matching token is answered is a function of its metadata alone: the
\* same status code and message whatever the CSR body and whatever CA
\* certificate and key the server holds, and no step that reads the CSR or
\* the CA has run.
C27_RefusalTellsNothing ==
    \A c \in Callers :
        (Done(c) /\ ~TokenOK(c)) =>
            /\ result[c] = [resp |-> NoResponse, err |-> AuthFailure(req[c].md)]
            /\ \A s \in CSRSteps \cup IssueSteps : ~Executed(c, s)

\* C27 witness: a request with a non-matching token and a correctly
\* self-signed CSR, sent to a server whose CA certificate does not decode and
\* whose CA key is not the certificate's, was answered "invalid token".
C27_Witness ==
    \E c \in Callers :
        /\ Failed(c) /\ HasToken(c) /\ ~TokenOK(c)
        /\ HasCSR(c) /\ SelfSigned(c)
        /\ ~pemDecode(configured.CACert).found
        /\ configured.CAPrivateKey # CAKey
        /\ result[c].err.msg = "invalid token"

\* serial generation failed at bootstrap
BootSerialFailed ==
    exitErr.msg = "Failed to generate TLS certificate: failed to generate serial number"

\* C28: every serial number generateSerialNumber produced, at bootstrap or
\* in the handler, is an integer n with 0 <= n < limit (the limit 1 << 128 of
\* the code is the bound MaxSerial here), zero included; a failure of the
\* random source in the handler is returned as Internal, the serial step
\* having run once and nothing after it, and a failure at bootstrap ends the
\* process before any certificate is signed or any request served: no
\* default value takes the place of the serial and the draw is not repeated.
C28_SerialRange ==
    /\ mainloc.serialNumber \in 0..(MaxSerial - 1)
    /\ BootCertSigned => mainloc.certDER.SerialNumber = mainloc.serialNumber
    /\ BootSerialFailed =>
          /\ mainpc = "exited" /\ ~listening
          /\ mainloc.certDER = NoDER /\ mainloc.cert = NoTLSCertificate
          /\ \A c \in Callers : steps[c] = <<>>
    /\ \A c \in Callers :
          /\ loc[c].serialNumber \in 0..(MaxSerial - 1)
          /\ Succeeded(c) => IssuedCert(c).SerialNumber = loc[c].serialNumber
          /\ (Failed(c) /\ LastStep(c) = "serial") =>
                /\ result[c].err.code = "Internal"
                /\ result[c].err.msg = "failed to generate serial"
                /\ result[c].resp = NoResponse
                /\ loc[c] = NoLocals
                /\ Cardinality({i \in 1..Len(steps[c]) : steps[c][i] = "serial"}) = 1

\* C28 witness: the bootstrap drew a non-zero serial and, later, the handler
\* drew zero for the certificate it issued.
C28_Witness ==
    \E c \in Callers :
        /\ mainloc.serialNumber # 0 /\ BootCertSigned
        /\ Succeeded(c)
        /\ IssuedCert(c).SerialNumber = 0

\* C29: once the server is serving, the delivery of SIGINT or SIGTERM
\* eventually makes the serve loop stop and the process exit.
C29_SignalStopsServing ==
    (mainloc.ctxDone /\ mainpc = "Serve") ~> (mainpc = "exited")

\* C30: an empty token never authenticates.  A command line with an empty
\* token ends main with ErrMissingToken (or with the error of the port, which
\* is tested first) before a Server is constructed, so whenever the port is
\* bound or an invocation is under way the token the Server holds is the
\* non-empty token of the command line; a request whose token metadata value
\* is the empty string is refused Unauthenticated, "invalid token", and is
\* issued no certificate.
C30_EmptyTokenRefused ==
    /\ (listening \/ mainpc \in {"Listen", "Serve"} \/ \E c \in Callers : Active(c)) =>
          /\ ValidToken # <<>>
          /\ ValidToken = flags.token
          /\ configured.ValidToken = ValidToken
    /\ flags.token = <<>> =>
          /\ mainpc \in {"PreRunE", "exited"}
          /\ configured.ValidToken = <<>> /\ configured.CAPrivateKey = NoKey
          /\ (mainpc = "exited" /\ flags.port \in 1..MaxPort)
                => exitErr.is = "missing Talos token"
    /\ \A c \in Callers :
          (Done(c) /\ HasToken(c) /\ Presented(c) = <<>>) =>
              /\ Failed(c)
              /\ result[c].err.code = "Unauthenticated"
              /\ result[c].err.msg = "invalid token"
              /\ result[c].resp = NoResponse
              /\ \A s \in CSRSteps \cup IssueSteps : ~Executed(c, s)

\* C30 witness: a server started with a non-empty token is serving and has
\* refused a request whose token metadata value is the empty string.
C30_Witness ==
    \E c \in Callers :
        /\ mainpc = "Serve" /\ listening
        /\ Done(c) /\ HasToken(c) /\ Presented(c) = <<>>
        /\ result[c].err.msg = "invalid token"
        /\ ValidToken # <<>>

====
